---- MODULE Spec2Model ----
(***************************************************************************)
(* PN532 NFC controller driver: frame codec and command engine.            *)
(*                                                                         *)
(* Two implementations of the driver core live in the repository:          *)
(*   src/pn532/pn532.py                    (variant "pn532")               *)
(*   src/nfc/communication/pn532/base.py   (variant "nfc")                 *)
(* Their frame codec and _call_function are textually the same; the        *)
(* construction sequence (firmware handshake) differs.                     *)
(*                                                                         *)
(* Bytes are naturals 0..255; Python sequences are 0-based, TLA+ sequences *)
(* 1-based: operators keep the 0-based offsets of the source and add 1 at  *)
(* the point of access.                                                    *)
(***************************************************************************)
EXTENDS Integers, Sequences, FiniteSets, TLC

VARIABLES
    \* ---- frame codec harness
    fPayload,     \* packet_data handed to _build_frame
    fFrame,       \* the frame _build_frame returned (<<>> before the call)
    fRaw,         \* the bytes handed to _parse_frame
    fParsed,      \* what _parse_frame did with fRaw
    fStep,        \* "init" | "built" | "parsed" | "corrupted"
    fMut,         \* 0-based index of the byte changed in fRaw, -1 when none
    \* ---- command engine
    variant,      \* "pn532" (src/pn532/pn532.py) | "nfc" (src/nfc/.../pn532/base.py)
    phase,        \* "constructing" | "ready" | "failed": the driver object
    op,           \* the method that called _call_function, "none" before any
    opState,      \* "running" | "returned"
    opResult,     \* what the method returned or raised
    pc,           \* position inside _call_function
    command,      \* _call_function's command
    params,       \* _call_function's params
    response_length,
    ops,          \* transport operations of the current _call_function, in order
    callResult,   \* what _call_function returned or raised
    cause,        \* what the transport did to end the call (observation only)
    fwAttempts,   \* GET_FIRMWARE_VERSION commands issued by the constructor
    fwFirst,      \* outcome of the constructor's first _get_firmware_version
    stale,        \* command whose response the device still holds, -1 when none
    lastCall,     \* [cause, result] of the _call_function call before this one
    \* ---- single calls of the functions that keep no state
    uIn,          \* [fn, arg]: the function and the argument it is called with
    uOut,         \* what the call returned or raised
    uDone,        \* the call was made
    \* ---- page operations on the tag
    api,          \* the implementation called: "PN532" | "NTAG213" | "NTAG"
    block_number, \* argument of the page operation
    data,         \* argument of write_block (<<>> for a read)
    staleParams,  \* params of the command `stale`
    \* ---- methods of a tag handle that loop over pages
    hApi,         \* the class of the handle
    hOp,          \* the method running, "none" before any
    hArgs,        \* its arguments
    hPc,          \* "idle" | "running" | "done"
    hIdx,         \* the loop variable
    hAcc,         \* what the method has collected so far
    hResult,      \* what the method returned or raised
    hIssued,      \* page commands handed to the driver, in order
    hReported,    \* pages whose failure was printed or logged, in order
    hCc,          \* BaseNTAG._cc
    hDepth,       \* nested frames of BaseNTAG.cc
    hMemory,      \* NTAG.memory of src/ntag/ntag.py
    tagMem,       \* pages of the tag's EEPROM overwritten so far
    hAccesses     \* completed accesses to BaseNTAG.cc

fvars == <<fPayload, fFrame, fRaw, fParsed, fStep, fMut>>

evars == <<variant, phase, op, opState, opResult, pc, command, params,
           response_length, ops, callResult, cause, fwAttempts, fwFirst,
           stale, lastCall, api, block_number, data, staleParams>>

uvars == <<uIn, uOut, uDone>>

tvars == <<api, block_number, data>>

hvars == <<hApi, hOp, hArgs, hPc, hIdx, hAcc, hResult, hIssued, hReported,
           hCc, hDepth, hMemory, tagMem, hAccesses>>

vars == <<fPayload, fFrame, fRaw, fParsed, fStep, fMut,
          variant, phase, op, opState, opResult, pc, command, params,
          response_length, ops, callResult, cause, fwAttempts, fwFirst,
          stale, lastCall, uIn, uOut, uDone,
          api, block_number, data, staleParams,
          hApi, hOp, hArgs, hPc, hIdx, hAcc, hResult, hIssued, hReported,
          hCc, hDepth, hMemory, tagMem, hAccesses>>

(***************************************************************************)
(* Bounds of the model.                                                    *)
(***************************************************************************)
\* longest payload enumerated byte by byte
MaxLen == 3

\* longest raw input handed to _parse_frame byte by byte
RawMaxLen == 5

\* longest data sequence handed to write_block
MaxData == 5

\* byte values the enumerated payloads and the corruptions are drawn from
ByteSample == {0, 1, 128, 213, 255}

\* payload lengths at the edge of the one-byte LEN field, filled with one byte
LongLens == {254, 255, 256}

(***************************************************************************)
(* Program constants.                                                      *)
(***************************************************************************)
PREAMBLE == 0
STARTCODE1 == 0
STARTCODE2 == 255
POSTAMBLE == 0
HOSTTOPN532 == 212
PN532TOHOST == 213
ACK == <<0, 0, 255, 0, 255, 0>>

(***************************************************************************)
(* Python helpers.                                                         *)
(***************************************************************************)
\* sum(s), by halves (the recursion stays shallow on long sequences)
RECURSIVE Sum(_)
Sum(s) ==
    IF Len(s) = 0 THEN 0
    ELSE IF Len(s) = 1 THEN s[1]
    ELSE LET h == Len(s) \div 2
         IN  Sum(SubSeq(s, 1, h)) + Sum(SubSeq(s, h + 1, Len(s)))

Min(a, b) == IF a < b THEN a ELSE b

\* s[a:b] for 0 <= a, 0 <= b (a slice never raises; it is cut at len(s))
PySlice(s, a, b) ==
    LET hi == Min(b, Len(s))
    IN  IF a >= hi THEN <<>> ELSE [i \in 1..(hi - a) |-> s[a + i]]

\* x & 0xFF for any integer x
And255(x) == x % 256

\* ~x & 0xFF  (~x = -x - 1)
Not255(x) == (-x - 1) % 256

\* outcome of a function: a value, Python's None, or an exception with its
\* message
PyNone == [kind |-> "None", exc |-> "", msg |-> "", data |-> <<>>]
Ok(d) == [kind |-> "ok", exc |-> "", msg |-> "", data |-> d]
Raise(e, m) == [kind |-> "raise", exc |-> e, msg |-> m, data |-> <<>>]

(***************************************************************************)
(* Frame codec.                                                            *)
(***************************************************************************)
\* the mutant: LCS is the one's complement of LEN (the +1 is forgotten)
BuildFrameOnesLcs(packet_data) ==
    LET packet_length == Len(packet_data)
        checksum == PREAMBLE + STARTCODE1 + STARTCODE2 + Sum(packet_data)
    IN  <<PREAMBLE, STARTCODE1, STARTCODE2,
          And255(packet_length), Not255(packet_length)>>
        \o packet_data
        \o <<Not255(checksum), POSTAMBLE>>

\* PN532._build_frame
BuildFrame(packet_data) ==
    LET packet_length == Len(packet_data)
        \* checksum = sum(frame[0:3]) + sum(packet_data)
        checksum == PREAMBLE + STARTCODE1 + STARTCODE2 + Sum(packet_data)
    IN  <<PREAMBLE, STARTCODE1, STARTCODE2,
          And255(packet_length),            \* frame[3] = packet_length & 0xFF
          And255(-packet_length)>>          \* frame[4] = (~packet_length + 1) & 0xFF
        \o packet_data                      \* frame[5:-2] = packet_data
        \o <<Not255(checksum), POSTAMBLE>>  \* frame[-2] = ~checksum & 0xFF

\* number of leading 0x00 bytes of s
ZeroRun(s) ==
    CHOOSE k \in 0..Len(s) :
        /\ \A j \in 1..k : s[j] = 0
        /\ (k = Len(s) \/ s[k + 1] # 0)

PreambleMsg == "Response frame preamble does not contain 0x00FF!"
NoDataMsg == "Response contains no data!"
LenChkMsg == "Response length checksum did not match length!"
DataChkMsg == "Response checksum did not match expected value."

\* the mutant: the data checksum is computed but never compared
ParseFrameNoDcs(packet_data) ==
    LET n == Len(packet_data)
        z == ZeroRun(packet_data)
        offset == z + 1
        frame_len == packet_data[offset + 1]
    IN  IF n = 0 THEN Raise("IndexError", "")
        ELSE IF z >= n THEN Raise("RuntimeError", PreambleMsg)
        ELSE IF packet_data[z + 1] # 255 THEN Raise("RuntimeError", PreambleMsg)
        ELSE IF offset >= n THEN Raise("RuntimeError", NoDataMsg)
        ELSE IF offset + 1 >= n THEN Raise("IndexError", "")
        ELSE IF And255(frame_len + packet_data[offset + 2]) # 0
             THEN Raise("RuntimeError", LenChkMsg)
        ELSE Ok(PySlice(packet_data, offset + 2, offset + 2 + frame_len))

\* the mutant: the payload slice takes the checksum byte along
ParseFrameKeepsDcs(packet_data) ==
    LET n == Len(packet_data)
        z == ZeroRun(packet_data)
        offset == z + 1
        frame_len == packet_data[offset + 1]
    IN  IF n = 0 THEN Raise("IndexError", "")
        ELSE IF z >= n THEN Raise("RuntimeError", PreambleMsg)
        ELSE IF packet_data[z + 1] # 255 THEN Raise("RuntimeError", PreambleMsg)
        ELSE IF offset >= n THEN Raise("RuntimeError", NoDataMsg)
        ELSE IF offset + 1 >= n THEN Raise("IndexError", "")
        ELSE IF And255(frame_len + packet_data[offset + 2]) # 0
             THEN Raise("RuntimeError", LenChkMsg)
        ELSE IF And255(Sum(PySlice(packet_data, offset + 2,
                                   offset + 2 + frame_len + 1))) # 0
             THEN Raise("RuntimeError", DataChkMsg)
        ELSE Ok(PySlice(packet_data, offset + 2, offset + 2 + frame_len + 1))

\* PN532._parse_frame
ParseFrame(packet_data) ==
    LET n == Len(packet_data)
        \* while packet_data[offset] == 0x00: offset += 1
        z == ZeroRun(packet_data)
        \* offset after the 0xFF start marker was stepped over
        offset == z + 1
        frame_len == packet_data[offset + 1]
    IN  IF n = 0 THEN Raise("IndexError", "")          \* packet_data[0]
        ELSE IF z >= n THEN Raise("RuntimeError", PreambleMsg)
        ELSE IF packet_data[z + 1] # 255 THEN Raise("RuntimeError", PreambleMsg)
        ELSE IF offset >= n THEN Raise("RuntimeError", NoDataMsg)
        ELSE IF offset + 1 >= n THEN Raise("IndexError", "")  \* packet_data[offset+1]
        ELSE IF And255(frame_len + packet_data[offset + 2]) # 0
             THEN Raise("RuntimeError", LenChkMsg)
        ELSE IF And255(Sum(PySlice(packet_data, offset + 2,
                                   offset + 2 + frame_len + 1))) # 0
             THEN Raise("RuntimeError", DataChkMsg)
        ELSE Ok(PySlice(packet_data, offset + 2, offset + 2 + frame_len))

\* the failure the specification calls ChecksumError: either checksum test
IsChecksumError(r) ==
    r.kind = "raise" /\ r.exc = "RuntimeError" /\ r.msg \in {LenChkMsg, DataChkMsg}

(***************************************************************************)
(* Frame codec harness: a payload is built into a frame, the frame is      *)
(* parsed, and one byte of the frame may be changed before it is parsed.   *)
(***************************************************************************)
SeqsUpTo(S, n) == UNION {[1..k -> S] : k \in 0..n}

Payloads ==
    SeqsUpTo(ByteSample, MaxLen)
    \cup {[i \in 1..n |-> b] : n \in LongLens, b \in ByteSample}

\* no outcome yet: the function was not called
NoOutcome == [kind |-> "unset", exc |-> "", msg |-> "", data |-> <<>>]

FrameInit ==
    /\ fPayload \in Payloads
    /\ fFrame = <<>>
    /\ fRaw = <<>>
    /\ fParsed = NoOutcome
    /\ fStep = "init"
    /\ fMut = -1
    \* no driver in this specification
    /\ variant = "pn532" /\ phase = "idle" /\ op = "none"
    /\ opState = "returned" /\ opResult = NoOutcome /\ pc = "NoCall"
    /\ command = 0 /\ params = <<>> /\ response_length = 0 /\ ops = <<>>
    /\ callResult = NoOutcome /\ cause = "none" /\ fwAttempts = 0
    /\ fwFirst = NoOutcome /\ stale = -1 /\ staleParams = <<>>
    /\ api = "none" /\ block_number = 0 /\ data = <<>>
    /\ lastCall = [cause |-> "none", result |-> NoOutcome]
    \* no single call in this specification
    /\ uIn = [fn |-> "none", arg |-> <<>>] /\ uOut = NoOutcome /\ uDone = TRUE
    \* no tag handle in this specification
    /\ hApi = "none" /\ hOp = "none" /\ hArgs = <<>> /\ hPc = "idle"
    /\ hIdx = 0 /\ hAcc = <<>> /\ hResult = NoOutcome /\ hIssued = <<>>
    /\ hReported = <<>> /\ hCc = NoOutcome /\ hDepth = 0 /\ hMemory = <<>>
    /\ tagMem = <<>> /\ hAccesses = 0

\* frame = self._build_frame(packet_data)
Build ==
    /\ fStep = "init"
    /\ fFrame' = BuildFrame(fPayload)
    /\ fStep' = "built"
    /\ UNCHANGED <<fPayload, fRaw, fParsed, fMut>>
    /\ UNCHANGED evars
    /\ UNCHANGED uvars
    /\ UNCHANGED hvars

\* parsed_data = self._parse_frame(frame), on the frame as built
ParseBuilt ==
    /\ fStep = "built"
    /\ fRaw' = fFrame
    /\ fParsed' = ParseFrame(fFrame)
    /\ fStep' = "parsed"
    /\ UNCHANGED <<fPayload, fFrame, fMut>>
    /\ UNCHANGED evars
    /\ UNCHANGED uvars
    /\ UNCHANGED hvars

\* the link changes one byte of the frame; the receiver parses what arrives
ParseCorrupted ==
    /\ fStep = "built"
    /\ \E i \in 0..(Len(fFrame) - 1), b \in ByteSample :
          /\ b # fFrame[i + 1]
          /\ fRaw' = [fFrame EXCEPT ![i + 1] = b]
          /\ fMut' = i
    /\ fParsed' = ParseFrame(fRaw')
    /\ fStep' = "corrupted"
    /\ UNCHANGED <<fPayload, fFrame>>
    /\ UNCHANGED evars
    /\ UNCHANGED uvars
    /\ UNCHANGED hvars

FrameNext == Build \/ ParseBuilt \/ ParseCorrupted

(***************************************************************************)
(* Command engine.                                                         *)
(***************************************************************************)
PN532_CMD_GETFIRMWAREVERSION == 2
PN532_CMD_SAMCONFIGURATION == 20
PN532_CMD_INLISTPASSIVETARGET == 74
ISO14443A == 0
PN532_CMD_INDATAEXCHANGE == 64
NTAG_CMD_READ == 48
NTAG_CMD_WRITE == 162

\* pages of the tag in the field (an NTAG213)
TagPages == 45

NACK == <<0, 255, 0, 0, 255, 0>>

\* one transport operation, as the transport saw it
TWrite(frame, res) == [t |-> "write", n |-> Len(frame), bytes |-> frame, res |-> res]
TRead(count, rd) ==
    [t |-> "read", n |-> count, bytes |-> rd.data,
     res |-> IF rd.kind = "ok" THEN "ok" ELSE IF rd.kind = "None" THEN "None" ELSE rd.exc]
TWaitReady(ready) ==
    [t |-> "wait_ready", n |-> 0, bytes |-> <<>>,
     res |-> IF ready THEN "true" ELSE "false"]
TWakeup == [t |-> "wakeup", n |-> 0, bytes |-> <<>>, res |-> "ok"]

\* _call_function: packet_data = [_HOSTTOPN532, command & 0xFF] + params
PacketData(cmd, prm) == <<HOSTTOPN532, And255(cmd)>> \o prm

\* _call_function: what the handler of OSError does and returns
\*   except OSError: self._wakeup(); return None
OnWriteError == [ops |-> <<TWakeup>>, result |-> PyNone]

\* _wait_for_ack comparing only the first five bytes it read
WaitForAckPrefix(rd) ==
    IF rd.kind = "raise" THEN rd
    ELSE IF rd.kind = "ok" /\ PySlice(rd.data, 0, 5) = PySlice(ACK, 0, 5)
         THEN Ok(<<1>>)
         ELSE Ok(<<0>>)

\* _wait_for_ack on what _read_data(len(_ACK)) gave: True as <<1>>, False
\* as <<0>>; an exception of _read_data passes through
WaitForAck(rd) ==
    IF rd.kind = "raise" THEN rd
    ELSE IF rd.kind = "ok" /\ rd.data = ACK THEN Ok(<<1>>)
    ELSE Ok(<<0>>)

\* the mutant: the result of _wait_ready is ignored
AfterWaitReadyIgnored(ready) == "AwaitingResponse"

\* _call_function: if not self._wait_ready(timeout): return None
AfterWaitReady(ready) == IF ready THEN "AwaitingResponse" ELSE "Failed"

\* _read_frame(length): response = self._read_data(length + 7)
ReadCount(rlen) == (rlen + 2) + 7

\* _read_frame on what _read_data gave (None is not subscriptable)
ReadFrame(rd) ==
    IF rd.kind = "raise" THEN rd
    ELSE IF rd.kind = "None" THEN Raise("TypeError", "")
    ELSE ParseFrame(rd.data)

\* _call_function: return response[2:]
CallReturn(parsed) ==
    IF parsed.kind = "ok"
    THEN Ok(PySlice(parsed.data, 2, Len(parsed.data)))
    ELSE parsed

FwFailMsg == "Failed to detect the PN532"

\* _get_firmware_version on what _call_function gave; it returns None
GetFirmwareVersion(r) ==
    IF r.kind = "raise" THEN r
    ELSE IF r.kind = "None" THEN Raise("RuntimeError", FwFailMsg)
    ELSE IF Len(r.data) # 4 THEN Raise("ValueError", "")  \* ic, ver, rev, support = ...
    ELSE PyNone

Caught(r) == r.kind = "raise" /\ r.exc \in {"BusyError", "RuntimeError"}

\* src/pn532/pn532.py _initialize: what follows attempt number `attempt`
\*   try: self._get_firmware_version()
\*   except (BusyError, RuntimeError): self._get_firmware_version()
InitializePn532(attempt, r) ==
    IF r.kind # "raise" THEN "ready"
    ELSE IF attempt = 1 /\ Caught(r) THEN "retry"
    ELSE "failed"

\* src/nfc/communication/pn532/base.py __init__:
\*   try: self._get_firmware_version()
\*   except (BusyError, RuntimeError): pass
\*   self._get_firmware_version()
InitializeNfc(attempt, r) ==
    IF attempt = 1
    THEN IF r.kind # "raise" \/ Caught(r) THEN "retry" ELSE "failed"
    ELSE IF r.kind # "raise" THEN "ready" ELSE "failed"

MoreCardsMsg == "More than one card detected!"
LongUidMsg == "Found card with unexpectedly long UID!"

\* list_passive_target without the test of the UID length
ListPassiveTargetAnyUid(r) ==
    IF r.kind = "raise" THEN (IF r.exc = "BusyError" THEN PyNone ELSE r)
    ELSE IF r.kind = "None" THEN PyNone
    ELSE LET response == r.data
         IN  IF Len(response) < 1 THEN Raise("IndexError", "")
             ELSE IF response[1] # 1 THEN Raise("RuntimeError", MoreCardsMsg)
             ELSE IF Len(response) < 6 THEN Raise("IndexError", "")
             ELSE Ok(PySlice(response, 6, 6 + response[6]))

\* the mutant: BusyError is not caught
ListPassiveTargetNoCatch(r) ==
    IF r.kind = "raise" THEN r
    ELSE IF r.kind = "None" THEN PyNone
    ELSE LET response == r.data
         IN  IF Len(response) < 1 THEN Raise("IndexError", "")
             ELSE IF response[1] # 1 THEN Raise("RuntimeError", MoreCardsMsg)
             ELSE IF Len(response) < 6 THEN Raise("IndexError", "")
             ELSE IF response[6] > 7 THEN Raise("RuntimeError", LongUidMsg)
             ELSE Ok(PySlice(response, 6, 6 + response[6]))

\* list_passive_target on what _call_function gave
ListPassiveTarget(r) ==
    IF r.kind = "raise"
    THEN (IF r.exc = "BusyError" THEN PyNone ELSE r)        \* except BusyError
    ELSE IF r.kind = "None" THEN PyNone                      \* if response is None
    ELSE LET response == r.data
         IN  IF Len(response) < 1 THEN Raise("IndexError", "")         \* response[0]
             ELSE IF response[1] # 1 THEN Raise("RuntimeError", MoreCardsMsg)
             ELSE IF Len(response) < 6 THEN Raise("IndexError", "")    \* response[5]
             ELSE IF response[6] > 7 THEN Raise("RuntimeError", LongUidMsg)
             ELSE Ok(PySlice(response, 6, 6 + response[6]))

\* SAM_configuration: the value of _call_function is dropped
SAMConfiguration(r) == IF r.kind = "raise" THEN r ELSE PyNone

(***************************************************************************)
(* The transport and the device behind it (the environment).               *)
(***************************************************************************)
\* what _read_data(6) may give after a command frame: the ACK, another six
\* bytes, fewer bytes, BusyError (UART: nothing buffered; I2C: status byte
\* not ready) or None (I2C: OSError swallowed by _read_data)
AckReads ==
    {Ok(ACK), Ok(NACK), Ok(<<0, 0, 255, 0, 255, 1>>), Ok(<<0, 0, 255>>),
     Raise("BusyError", ""), PyNone}

\* response bodies (after the two header bytes) the device sends per command
Uid4 == <<4, 161, 178, 195>>
Uid7 == <<4, 161, 178, 195, 212, 229, 128>>
Uid10 == <<4, 161, 178, 195, 212, 229, 128, 17, 34, 51>>
\* content of page p of the tag in the field (page 3: capability container)
TagMemory(p) ==
    IF p = 3 THEN <<225, 16, 18, 0>>
    ELSE <<And255(4 * p), And255(4 * p + 1), And255(4 * p + 2), And255(4 * p + 3)>>

\* the 16 bytes a READ of page p returns: four pages, rolling over to page 0
ReadWindow(p) ==
    TagMemory(p % TagPages) \o TagMemory((p + 1) % TagPages)
    \o TagMemory((p + 2) % TagPages) \o TagMemory((p + 3) % TagPages)

\* status bytes of a failed InDataExchange: 0x01 (in PN532_ERRORS) and 0x41
\* (the same with the MI bit set, not in PN532_ERRORS)
ErrStatuses == {1, 65}

\* what the device answers to InDataExchange with params prm: status 0 and
\* the data when the tag carries the command out, an error status alone
\* otherwise
ExchangeBodies(prm) ==
    {<<st>> : st \in ErrStatuses}
    \cup (IF prm[2] = NTAG_CMD_READ /\ prm[3] < TagPages
          THEN {<<0>> \o ReadWindow(prm[3])} ELSE {})
    \cup (IF prm[2] = NTAG_CMD_WRITE /\ prm[3] < TagPages /\ Len(prm) = 7
          THEN {<<0>>} ELSE {})

RespBodies(c, prm) ==
    IF c = PN532_CMD_GETFIRMWAREVERSION THEN {<<50, 1, 6, 7>>}
    ELSE IF c = PN532_CMD_SAMCONFIGURATION THEN {<<>>}
    ELSE IF c = PN532_CMD_INDATAEXCHANGE THEN ExchangeBodies(prm)
    ELSE {<<1, 1, 0, 68, 0, 4>> \o Uid4,
          <<1, 1, 0, 68, 0, 7>> \o Uid7,
          <<1, 1, 0, 68, 0, 8>> \o Uid7 \o <<1>>,
          <<1, 1, 0, 68, 0, 10>> \o Uid10,
          <<2, 1, 0, 68, 0, 4>> \o Uid4 \o <<2, 0, 68, 0, 4>> \o Uid4,
          <<0>>}

Zeros(n) == [i \in 1..n |-> 0]

\* the `count` bytes the bus delivers when the device sends `frame`
Delivered(frame, count) == PySlice(frame \o Zeros(count), 0, count)

\* the frame with its DCS byte off by one
BadDcs(frame) ==
    [frame EXCEPT ![Len(frame) - 1] = And255(frame[Len(frame) - 1] + 1)]

\* what _read_data(count) may give for the response: the frame answering
\* `c`, the frame answering the abandoned command `st`, a damaged frame,
\* BusyError or None; each with the name of the case
ResponseReads(c, prm, st, stprm, count) ==
    {[tag |-> "response",
      rd |-> Ok(Delivered(BuildFrame(<<PN532TOHOST, c + 1>> \o b), count))] :
        b \in RespBodies(c, prm)}
    \cup (IF st = -1 THEN {} ELSE
    {[tag |-> "stale_response",
      rd |-> Ok(Delivered(BuildFrame(<<PN532TOHOST, st + 1>> \o b), count))] :
        b \in RespBodies(st, stprm)})
    \cup
    {[tag |-> "corrupt_response",
      rd |-> Ok(Delivered(BadDcs(BuildFrame(<<PN532TOHOST, c + 1>> \o b)), count))] :
        b \in RespBodies(c, prm)}
    \cup {[tag |-> "busy_response", rd |-> Raise("BusyError", "")],
          [tag |-> "none_response", rd |-> PyNone]}

(***************************************************************************)
(* Command engine: actions.                                                *)
(***************************************************************************)
EngineInit ==
    /\ variant \in {"pn532", "nfc"}
    /\ phase = "constructing"
    /\ op = "none"
    /\ opState = "returned"
    /\ opResult = NoOutcome
    /\ pc = "NoCall"
    /\ command = 0
    /\ params = <<>>
    /\ response_length = 0
    /\ ops = <<>>
    /\ callResult = NoOutcome
    /\ cause = "none"
    /\ fwAttempts = 0
    /\ fwFirst = NoOutcome
    /\ stale = -1
    /\ staleParams = <<>>
    /\ lastCall = [cause |-> "none", result |-> NoOutcome]
    \* no page operation before the first one
    /\ api = "none" /\ block_number = 0 /\ data = <<>>
    \* the frame codec harness is not used in this specification
    /\ fPayload = <<>> /\ fFrame = <<>> /\ fRaw = <<>>
    /\ fParsed = NoOutcome /\ fStep = "idle" /\ fMut = -1
    \* no single call in this specification
    /\ uIn = [fn |-> "none", arg |-> <<>>] /\ uOut = NoOutcome /\ uDone = TRUE
    \* no tag handle in this specification
    /\ hApi = "none" /\ hOp = "none" /\ hArgs = <<>> /\ hPc = "idle"
    /\ hIdx = 0 /\ hAcc = <<>> /\ hResult = NoOutcome /\ hIssued = <<>>
    /\ hReported = <<>> /\ hCc = NoOutcome /\ hDepth = 0 /\ hMemory = <<>>
    /\ tagMem = <<>> /\ hAccesses = 0

\* a method enters _call_function(cmd, response_length=rlen, params=prm)
BeginCall(o, cmd, prm, rlen) ==
    /\ op' = o
    /\ opState' = "running"
    /\ opResult' = NoOutcome
    /\ pc' = "Idle"
    /\ command' = cmd
    /\ params' = prm
    /\ response_length' = rlen
    /\ ops' = <<>>
    /\ callResult' = NoOutcome
    /\ cause' = "none"
    /\ lastCall' = [cause |-> cause, result |-> callResult]

\* _call_function leaves with outcome r
Finish(r, c) ==
    /\ callResult' = r
    /\ cause' = c
    /\ pc' = IF r.kind = "ok" THEN "Done" ELSE "Failed"

\* the method returns to its caller with outcome r
Return(r) ==
    /\ opState' = "returned"
    /\ opResult' = r
    /\ pc' = "NoCall"
    /\ UNCHANGED <<op, command, params, response_length, ops, callResult, cause,
                   lastCall>>

\* the constructor: wake the device up, first _get_firmware_version
Construct ==
    /\ phase = "constructing" /\ op = "none"
    /\ BeginCall("firmware", PN532_CMD_GETFIRMWAREVERSION, <<>>, 4)
    /\ fwAttempts' = 1
    /\ UNCHANGED <<variant, phase, fwFirst, stale, staleParams>>
    /\ UNCHANGED fvars
    /\ UNCHANGED uvars
    /\ UNCHANGED hvars
    /\ UNCHANGED tvars

\* _call_function: self._write_frame(packet_data), and the OSError handler
WriteFrame ==
    /\ pc = "Idle"
    /\ LET frame == BuildFrame(PacketData(command, params))
       IN  \/ /\ ops' = Append(ops, TWrite(frame, "ok"))
              /\ pc' = "AwaitingAck"
              /\ UNCHANGED <<callResult, cause>>
           \/ /\ ops' = Append(ops, TWrite(frame, "OSError")) \o OnWriteError.ops
              /\ Finish(OnWriteError.result, "write_error")
    /\ UNCHANGED <<variant, phase, op, opState, opResult, command, params,
                   response_length, fwAttempts, fwFirst, stale, staleParams,
                   lastCall>>
    /\ UNCHANGED fvars
    /\ UNCHANGED uvars
    /\ UNCHANGED hvars
    /\ UNCHANGED tvars

\* _call_function: if not self._wait_for_ack(): return None
WaitForAckStep ==
    /\ pc = "AwaitingAck"
    /\ \E rd \in AckReads :
          LET r == WaitForAck(rd)
          IN  /\ ops' = Append(ops, TRead(Len(ACK), rd))
              /\ IF r.kind = "raise"
                 THEN Finish(r, "busy_ack")
                 ELSE IF r.data = <<1>>
                 THEN /\ pc' = "AwaitingReady"
                      /\ UNCHANGED <<callResult, cause>>
                 ELSE Finish(PyNone, "no_ack")
    /\ UNCHANGED <<variant, phase, op, opState, opResult, command, params,
                   response_length, fwAttempts, fwFirst, stale, staleParams,
                   lastCall>>
    /\ UNCHANGED fvars
    /\ UNCHANGED uvars
    /\ UNCHANGED hvars
    /\ UNCHANGED tvars

\* _call_function: if not self._wait_ready(timeout): return None
\* (a command the device accepted and has not answered stays pending)
WaitReadyStep ==
    /\ pc = "AwaitingReady"
    /\ \E ready \in BOOLEAN :
          /\ ops' = Append(ops, TWaitReady(ready))
          /\ IF AfterWaitReady(ready) = "AwaitingResponse"
             THEN /\ pc' = "AwaitingResponse"
                  /\ UNCHANGED <<callResult, cause, stale, staleParams>>
             ELSE /\ Finish(PyNone, "not_ready")
                  /\ stale' = command
                  /\ staleParams' = params
    /\ UNCHANGED <<variant, phase, op, opState, opResult, command, params,
                   response_length, fwAttempts, fwFirst, lastCall>>
    /\ UNCHANGED fvars
    /\ UNCHANGED uvars
    /\ UNCHANGED hvars
    /\ UNCHANGED tvars

\* _call_function: response = self._read_frame(response_length + 2)
\*                 return response[2:]
ReadFrameStep ==
    /\ pc = "AwaitingResponse"
    /\ \E e \in ResponseReads(command, params, stale, staleParams,
                              ReadCount(response_length)) :
          /\ ops' = Append(ops, TRead(ReadCount(response_length), e.rd))
          /\ Finish(CallReturn(ReadFrame(e.rd)), e.tag)
    /\ stale' = -1
    /\ staleParams' = <<>>
    /\ UNCHANGED <<variant, phase, op, opState, opResult, command, params,
                   response_length, fwAttempts, fwFirst, lastCall>>
    /\ UNCHANGED fvars
    /\ UNCHANGED uvars
    /\ UNCHANGED hvars
    /\ UNCHANGED tvars

CallStep == WriteFrame \/ WaitForAckStep \/ WaitReadyStep \/ ReadFrameStep

Returned == pc \in {"Done", "Failed"}

\* the constructor after a _get_firmware_version: retry, finish or fail
FirmwareReturn ==
    /\ op = "firmware" /\ opState = "running" /\ Returned
    /\ LET r == GetFirmwareVersion(callResult)
           next == IF variant = "pn532" THEN InitializePn532(fwAttempts, r)
                   ELSE InitializeNfc(fwAttempts, r)
       IN  /\ fwFirst' = IF fwAttempts = 1 THEN r ELSE fwFirst
           /\ IF next = "retry"
              THEN /\ BeginCall("firmware", PN532_CMD_GETFIRMWAREVERSION, <<>>, 4)
                   /\ fwAttempts' = fwAttempts + 1
                   /\ UNCHANGED phase
              ELSE /\ Return(r)
                   /\ phase' = next
                   /\ UNCHANGED fwAttempts
    /\ UNCHANGED <<variant, stale, staleParams>>
    /\ UNCHANGED fvars
    /\ UNCHANGED uvars
    /\ UNCHANGED hvars
    /\ UNCHANGED tvars

\* list_passive_target(card_baud=_ISO14443A, timeout) is called
ListPassiveTargetBegin ==
    /\ phase = "ready" /\ opState = "returned"
    /\ BeginCall("lpt", PN532_CMD_INLISTPASSIVETARGET, <<1, ISO14443A>>, 19)
    /\ UNCHANGED <<variant, phase, fwAttempts, fwFirst, stale, staleParams>>
    /\ UNCHANGED fvars
    /\ UNCHANGED uvars
    /\ UNCHANGED hvars
    /\ UNCHANGED tvars

\* list_passive_target returns or raises
ListPassiveTargetReturn ==
    /\ op = "lpt" /\ opState = "running" /\ Returned
    /\ Return(ListPassiveTarget(callResult))
    /\ UNCHANGED <<variant, phase, fwAttempts, fwFirst, stale, staleParams>>
    /\ UNCHANGED fvars
    /\ UNCHANGED uvars
    /\ UNCHANGED hvars
    /\ UNCHANGED tvars

\* SAM_configuration() is called
SAMConfigurationBegin ==
    /\ phase = "ready" /\ opState = "returned"
    /\ BeginCall("sam", PN532_CMD_SAMCONFIGURATION, <<1, 20, 1>>, 0)
    /\ UNCHANGED <<variant, phase, fwAttempts, fwFirst, stale, staleParams>>
    /\ UNCHANGED fvars
    /\ UNCHANGED uvars
    /\ UNCHANGED hvars
    /\ UNCHANGED tvars

\* SAM_configuration returns or raises
SAMConfigurationReturn ==
    /\ op = "sam" /\ opState = "running" /\ Returned
    /\ Return(SAMConfiguration(callResult))
    /\ UNCHANGED <<variant, phase, fwAttempts, fwFirst, stale, staleParams>>
    /\ UNCHANGED fvars
    /\ UNCHANGED uvars
    /\ UNCHANGED hvars
    /\ UNCHANGED tvars

EngineNext ==
    \/ Construct
    \/ WriteFrame
    \/ WaitForAckStep
    \/ WaitReadyStep
    \/ ReadFrameStep
    \/ FirmwareReturn
    \/ ListPassiveTargetBegin
    \/ ListPassiveTargetReturn
    \/ SAMConfigurationBegin
    \/ SAMConfigurationReturn

(***************************************************************************)
(* Page operations on the tag: PN532.ntag2xx_read_block / _write_block of  *)
(* src/pn532/pn532.py (api "PN532"), and the tag classes NTAG213           *)
(* (src/ntag/ntag213.py) and NTAG (src/ntag/NTAG.py), which call           *)
(* _call_function without a command and so run on the driver whose         *)
(* _call_function defaults it to InDataExchange (variant "nfc").           *)
(***************************************************************************)
\* rows of PN532_ERRORS for the status bytes the device of the model sends
PN532_ERRORS == [err \in {1} |-> "PN532 ERROR TIMEOUT"]

\* raise PN532Error(err): the exception is built from the table's message
PN532Error(err) ==
    Raise("PN532Error",
          IF err \in DOMAIN PN532_ERRORS THEN PN532_ERRORS[err]
          ELSE "Unknown Error")

DataLengthMsg == "Data must be an array of 1 to 4 bytes."
BlockRangeMsg == "Block number out of range"
AssertDataMsg == "Data must be an array of 4 bytes!"

\* if not data or not 1 < len(data) <= length: raise ValueError(...)
ValidateDataLength(d, length) ==
    IF Len(d) = 0 \/ ~(1 < Len(d) /\ Len(d) <= length)
    THEN Raise("ValueError", DataLengthMsg)
    ELSE NoOutcome

\* the implementations a driver variant offers
Apis(v) == IF v = "pn532" THEN {"PN532"} ELSE {"NTAG213", "NTAG"}

\* what write_block does before it builds the command: an exception, or
\* NoOutcome when it goes on
WritePre(a, n, d) ==
    IF a = "PN532" THEN ValidateDataLength(d, 4)
    ELSE IF a = "NTAG213"
    THEN IF ~(0 <= n /\ n < 45) THEN Raise("ValueError", BlockRangeMsg)
         ELSE ValidateDataLength(d, 4)
    ELSE IF Len(d) # 4 THEN Raise("AssertionError", AssertDataMsg)
         ELSE NoOutcome

\* what read_block does before it builds the command
ReadPre(a, n) ==
    IF a = "NTAG213" /\ ~(0 <= n /\ n < 45)
    THEN Raise("ValueError", BlockRangeMsg)
    ELSE NoOutcome

\* params of the WRITE: [0x01, _NTAG_CMD_WRITE, block_number & 0xFF] + data
WriteParams(n, d) == <<1, NTAG_CMD_WRITE, And255(n)>> \o d

\* params of the READ: [0x01, _NTAG_CMD_READ, block_number & 0xFF]
ReadParams(n) == <<1, NTAG_CMD_READ, And255(n)>>

\* write_block after _call_function gave r
WriteResult(a, r) ==
    IF r.kind = "raise" THEN r
    ELSE IF r.kind = "None" THEN Raise("TypeError", "")
    ELSE IF Len(r.data) < 1 THEN Raise("IndexError", "")
    ELSE IF a = "PN532" /\ r.data[1] # 0 THEN PN532Error(r.data[1])
    ELSE Ok(<<IF r.data[1] = 0 THEN 1 ELSE 0>>)

\* read_block after _call_function gave r: response[1:][:4]
ReadResult(a, r) ==
    IF r.kind = "raise" THEN r
    ELSE IF r.kind = "None"
    THEN (IF a = "NTAG213" THEN PyNone ELSE Raise("TypeError", ""))
    ELSE IF a = "NTAG" THEN Ok(PySlice(PySlice(r.data, 1, Len(r.data)), 0, 4))
    ELSE IF Len(r.data) < 1 THEN Raise("IndexError", "")
    ELSE IF r.data[1] # 0
    THEN (IF a = "PN532" THEN PN532Error(r.data[1]) ELSE PyNone)
    ELSE Ok(PySlice(PySlice(r.data, 1, Len(r.data)), 0, 4))

\* block numbers the caller passes
BlockNumbers == {3, 45, 259, -1}

\* data the caller passes to write_block: one sequence per length
DataOfLen(n) == [i \in 1..n |-> 16 * i + 1]

WriteArgs ==
    {[block_number |-> 4, data |-> DataOfLen(n)] : n \in 0..MaxData}
    \cup {[block_number |-> n, data |-> DataOfLen(4)] : n \in {45, 260}}

\* the method raises before it calls _call_function
Reject(o, r) ==
    /\ op' = o
    /\ opState' = "returned"
    /\ opResult' = r
    /\ pc' = "NoCall"
    /\ ops' = <<>>
    /\ callResult' = NoOutcome
    /\ cause' = "none"
    /\ lastCall' = [cause |-> cause, result |-> callResult]
    /\ UNCHANGED <<command, params, response_length>>

\* read_block(block_number) / ntag2xx_read_block(block_number) is called
ReadBlockBegin ==
    /\ phase = "ready" /\ opState = "returned"
    /\ \E a \in Apis(variant), n \in BlockNumbers :
          /\ api' = a /\ block_number' = n /\ data' = <<>>
          /\ IF ReadPre(a, n).kind = "raise"
             THEN Reject("read", ReadPre(a, n))
             ELSE BeginCall("read", PN532_CMD_INDATAEXCHANGE, ReadParams(n), 17)
    /\ UNCHANGED <<variant, phase, fwAttempts, fwFirst, stale, staleParams>>
    /\ UNCHANGED fvars
    /\ UNCHANGED uvars
    /\ UNCHANGED hvars

\* read_block returns or raises
ReadBlockReturn ==
    /\ op = "read" /\ opState = "running" /\ Returned
    /\ Return(ReadResult(api, callResult))
    /\ UNCHANGED <<variant, phase, fwAttempts, fwFirst, stale, staleParams>>
    /\ UNCHANGED fvars
    /\ UNCHANGED uvars
    /\ UNCHANGED hvars
    /\ UNCHANGED tvars

\* write_block(block_number, data) / ntag2xx_write_block is called
WriteBlockBegin ==
    /\ phase = "ready" /\ opState = "returned"
    /\ \E a \in Apis(variant), w \in WriteArgs :
          /\ api' = a /\ block_number' = w.block_number /\ data' = w.data
          /\ IF WritePre(a, w.block_number, w.data).kind = "raise"
             THEN Reject("write", WritePre(a, w.block_number, w.data))
             ELSE BeginCall("write", PN532_CMD_INDATAEXCHANGE,
                            WriteParams(w.block_number, w.data), 1)
    /\ UNCHANGED <<variant, phase, fwAttempts, fwFirst, stale, staleParams>>
    /\ UNCHANGED fvars
    /\ UNCHANGED uvars
    /\ UNCHANGED hvars

\* write_block returns or raises
WriteBlockReturn ==
    /\ op = "write" /\ opState = "running" /\ Returned
    /\ Return(WriteResult(api, callResult))
    /\ UNCHANGED <<variant, phase, fwAttempts, fwFirst, stale, staleParams>>
    /\ UNCHANGED fvars
    /\ UNCHANGED uvars
    /\ UNCHANGED hvars
    /\ UNCHANGED tvars

TagNext ==
    \/ Construct
    \/ WriteFrame
    \/ WaitForAckStep
    \/ WaitReadyStep
    \/ ReadFrameStep
    \/ FirmwareReturn
    \/ ReadBlockBegin
    \/ ReadBlockReturn
    \/ WriteBlockBegin
    \/ WriteBlockReturn

(***************************************************************************)
(* Single calls of the functions that keep no state: the argument is drawn *)
(* from a bounded set, the function is applied once.                       *)
(***************************************************************************)
\* an int, and Python's None in the place of an int
Some(x) == <<x>>
None == <<>>

\* the properties of the mapping without the NTAG215 row
DetermineTagPropertiesNo215(byte) ==
    IF byte = 18
    THEN [tag_type |-> "NTAG213",
          user_memory_range |-> <<Some(4), Some(39)>>,
          configuration_pages_range |-> <<Some(41), Some(44)>>,
          pages |-> Some(45)]
    ELSE IF byte = 109
    THEN [tag_type |-> "NTAG216",
          user_memory_range |-> <<Some(4), Some(225)>>,
          configuration_pages_range |-> <<Some(227), Some(230)>>,
          pages |-> Some(231)]
    ELSE [tag_type |-> "Unknown",
          user_memory_range |-> <<None, None>>,
          configuration_pages_range |-> <<None, None>>,
          pages |-> None]

\* self._tag_type, self._user_memory_range, self._configuration_pages_range,
\* self._pages = tag_properties_mapping.get(byte, ('Unknown', ...))
DetermineTagProperties(byte) ==
    IF byte = 18
    THEN [tag_type |-> "NTAG213",
          user_memory_range |-> <<Some(4), Some(39)>>,
          configuration_pages_range |-> <<Some(41), Some(44)>>,
          pages |-> Some(45)]
    ELSE IF byte = 62
    THEN [tag_type |-> "NTAG215",
          user_memory_range |-> <<Some(4), Some(129)>>,
          configuration_pages_range |-> <<Some(131), Some(134)>>,
          pages |-> Some(135)]
    ELSE IF byte = 109
    THEN [tag_type |-> "NTAG216",
          user_memory_range |-> <<Some(4), Some(225)>>,
          configuration_pages_range |-> <<Some(227), Some(230)>>,
          pages |-> Some(231)]
    ELSE [tag_type |-> "Unknown",
          user_memory_range |-> <<None, None>>,
          configuration_pages_range |-> <<None, None>>,
          pages |-> None]

\* b with bit k inverted
FlipBit(b, k) == IF (b \div (2 ^ k)) % 2 = 1 THEN b - 2 ^ k ELSE b + 2 ^ k

\* what _read_data(len(_ACK)) may hand to the comparison: the ACK, the ACK
\* with one bit inverted, a shorter or a longer sequence
AckCandidates ==
    {ACK}
    \cup {[ACK EXCEPT ![i] = FlipBit(ACK[i], k)] : i \in 1..6, k \in 0..7}
    \cup {PySlice(ACK, 0, n) : n \in 0..5}
    \cup {ACK \o <<b>> : b \in ByteSample}

\* raw byte sequences handed to _parse_frame
RawInputs == SeqsUpTo(ByteSample, RawMaxLen)

(***************************************************************************)
(* NDEF encoders.  A str is a sequence of characters, bytes a sequence of  *)
(* naturals; the lengths of types, ids and records of the inputs stay      *)
(* below the values at which int.to_bytes raises OverflowError.            *)
(***************************************************************************)
\* ord(c) of the characters of the inputs
Ord(c) ==
    CASE c = "h" -> 104 [] c = "t" -> 116 [] c = "p" -> 112 [] c = "s" -> 115
      [] c = ":" -> 58  [] c = "/" -> 47  [] c = "w" -> 119 [] c = "." -> 46
      [] c = "e" -> 101 [] c = "x" -> 120 [] c = "a" -> 97  [] c = "m" -> 109
      [] c = "l" -> 108 [] c = "c" -> 99  [] c = "o" -> 111 [] c = "f" -> 102
      [] c = "i" -> 105 [] c = "d" -> 100 [] c = "U" -> 85  [] c = "T" -> 84
      [] c = "eacute" -> 233

\* c.encode(): UTF-8, one byte below U+0080 and two below U+0800
Utf8(c) ==
    IF Ord(c) < 128 THEN <<Ord(c)>>
    ELSE <<192 + (Ord(c) \div 64), 128 + (Ord(c) % 64)>>

\* s.encode()
RECURSIVE Encode(_)
Encode(s) ==
    IF Len(s) = 0 THEN <<>>
    ELSE IF Len(s) = 1 THEN Utf8(s[1])
    ELSE LET h == Len(s) \div 2
         IN  Encode(SubSeq(s, 1, h)) \o Encode(SubSeq(s, h + 1, Len(s)))

\* n.to_bytes(w, 'big')
ToBytes(n, w) == [i \in 1..w |-> (n \div (256 ^ (w - i))) % 256]

\* a | b on bytes
Or8(a, b) ==
    Sum([k \in 1..8 |->
            IF (a \div (2 ^ (k - 1))) % 2 = 1 \/ (b \div (2 ^ (k - 1))) % 2 = 1
            THEN 2 ^ (k - 1) ELSE 0])

\* payload.startswith(prefix)
StartsWith(s, prefix) ==
    Len(prefix) <= Len(s) /\ SubSeq(s, 1, Len(prefix)) = prefix

\* ---- src/pn532/pn532.py

\* create_ndef_record up to `complete_record = header + payload.encode()`
RecordBeforeTerminator(tnf, record_type, payload, record_position, id) ==
    LET MB == IF record_position \in {"only", "first"} THEN 128 ELSE 0
        ME == IF record_position \in {"only", "last"} THEN 64 ELSE 0
        CF == IF record_position = "middle" THEN 32 ELSE 0
        SR == IF Len(payload) < 256 THEN 16 ELSE 0
        IL == IF Len(id) > 0 THEN 8 ELSE 0
        message_flags == Or8(MB + ME + CF + SR + IL, tnf)
        type_length == ToBytes(Len(record_type), 1)
        payload_length == IF SR # 0 THEN ToBytes(Len(payload), 1)
                          ELSE ToBytes(Len(payload), 4)
        id_length == IF IL # 0 THEN ToBytes(Len(id), 1) ELSE <<>>
        header == <<message_flags>> \o type_length \o payload_length
                  \o id_length \o Encode(record_type) \o Encode(id)
    IN  header \o Encode(payload)

\* create_ndef_record: complete_record += b'\xFE'
CreateNdefRecordPn532(tnf, record_type, payload, record_position, id) ==
    RecordBeforeTerminator(tnf, record_type, payload, record_position, id)
    \o <<254>>

\* combine_ndef_records: ndef_message.extend(record) for each record
RECURSIVE CombineNdefRecords(_)
CombineNdefRecords(records) ==
    IF Len(records) = 0 THEN <<>>
    ELSE Head(records) \o CombineNdefRecords(Tail(records))

\* ---- src/nfc/communication/ndef/base.py

\* rows of URI_PREFIX_MAP; NDEF_URIPREFIX_NONE
URI_PREFIX_MAP ==
    << [prefix |-> <<"h", "t", "t", "p", ":", "/", "/", "w", "w", "w", ".">>,
        code |-> 1],
       [prefix |-> <<"h", "t", "t", "p", "s", ":", "/", "/", "w", "w", "w", ".">>,
        code |-> 2],
       [prefix |-> <<"h", "t", "t", "p", ":", "/", "/">>, code |-> 3],
       [prefix |-> <<"h", "t", "t", "p", "s", ":", "/", "/">>, code |-> 4] >>

NDEF_URIPREFIX_NONE == 0

\* _create_message_flags(payload, id, tnf): MB and ME always, SR from the
\* str payload
CreateMessageFlags(payload, id, tnf) ==
    LET SR == IF Len(payload) < 256 THEN 16 ELSE 0
        IL == IF Len(id) > 0 THEN 8 ELSE 0
    IN  Or8(128 + 64 + 0 + SR + IL, tnf)

\* the loop of _prepare_payload over the first k rows: the best row so far
\* (0 for none); a later row replaces it on any match, whatever its length
RECURSIVE BestMatchLast(_, _)
BestMatchLast(payload, k) ==
    IF k = 0 THEN 0
    ELSE IF StartsWith(payload, URI_PREFIX_MAP[k].prefix) THEN k
    ELSE BestMatchLast(payload, k - 1)

\* the loop of _prepare_payload over the first k rows: the best row so far
\* (0 for none)
\*   if payload.startswith(prefix) and len(prefix) > max_prefix_length
RECURSIVE BestMatch(_, _)
BestMatch(payload, k) ==
    IF k = 0 THEN 0
    ELSE LET best == BestMatch(payload, k - 1)
             max_prefix_length ==
                 IF best = 0 THEN 0 ELSE Len(URI_PREFIX_MAP[best].prefix)
         IN  IF StartsWith(payload, URI_PREFIX_MAP[k].prefix)
                /\ Len(URI_PREFIX_MAP[k].prefix) > max_prefix_length
             THEN k ELSE best

\* _prepare_payload(record_type, payload) of ndef/base.py
PreparePayloadNdef(record_type, payload) ==
    IF record_type = <<"U">>
    THEN LET best == BestMatch(payload, Len(URI_PREFIX_MAP))
             best_match_code ==
                 IF best = 0 THEN NDEF_URIPREFIX_NONE
                 ELSE URI_PREFIX_MAP[best].code
             matched_prefix ==
                 IF best = 0 THEN <<>> ELSE URI_PREFIX_MAP[best].prefix
         IN  <<best_match_code>>
             \o Encode(SubSeq(payload, Len(matched_prefix) + 1, Len(payload)))
    ELSE Encode(payload)

\* _create_record_header(tnf, record_type, payload, id): (header, prepared)
CreateRecordHeaderNdef(tnf, record_type, payload, id) ==
    LET message_flags == CreateMessageFlags(payload, id, tnf)
        prepared_payload == PreparePayloadNdef(record_type, payload)
        type_length == ToBytes(Len(record_type), 1)
        payload_length ==
            ToBytes(Len(prepared_payload),
                    IF Len(prepared_payload) < 256 THEN 1 ELSE 4)
        id_length == IF Len(id) > 0 THEN ToBytes(Len(id), 1) ELSE <<>>
    IN  [header |-> <<message_flags>> \o type_length \o payload_length
                    \o id_length \o Encode(record_type)
                    \o (IF Len(id) > 0 THEN Encode(id) ELSE <<>>),
         payload |-> prepared_payload]

\* _construct_complete_record(tnf, record_type, payload, id)
ConstructCompleteRecordNdef(tnf, record_type, payload, id) ==
    LET hp == CreateRecordHeaderNdef(tnf, record_type, payload, id)
        complete_record == hp.header \o hp.payload
        tlv_length ==
            ToBytes(Len(complete_record),
                    IF Len(complete_record) < 255 THEN 1 ELSE 2)
    IN  <<3>> \o tlv_length \o complete_record \o <<254>>

\* ---- src/ntag/ntag213.py, src/ntag/NDEF.py, src/ntag/ntag.py

\* _prepare_payload(record_type, payload): the code depends on the debug
\* flag (ntag213.py, NDEF.py) or is 0x04 (ntag.py); the payload is whole
PreparePayloadFixed(cls, debug, record_type, payload) ==
    LET uri_identifier_code ==
            IF cls # "ntag" /\ debug THEN <<3>> ELSE <<4>>
    IN  IF record_type = <<"U">> THEN uri_identifier_code \o Encode(payload)
        ELSE Encode(payload)

\* NTAG213._create_record_header(message_flags, record_type, payload, id)
\* on the prepared payload
CreateRecordHeader213(message_flags, record_type, payload, id) ==
    LET type_length == ToBytes(Len(record_type), 1)
        payload_length ==
            ToBytes(Len(payload), IF Len(payload) < 256 THEN 1 ELSE 4)
        id_length == IF Len(id) > 0 THEN ToBytes(Len(id), 1) ELSE <<>>
    IN  <<message_flags>> \o type_length \o payload_length \o id_length
        \o Encode(record_type) \o Encode(id)

\* NTAG213._construct_complete_record(header, payload)
ConstructCompleteRecord213(header, payload) ==
    LET complete_record == header \o payload
        ndef_length == Len(complete_record)
        tlv_length == IF ndef_length < 255 THEN <<ndef_length>>
                      ELSE <<255>> \o ToBytes(ndef_length, 2)
    IN  <<52>> \o <<3>> \o tlv_length \o complete_record \o <<254>>

\* NTAG213.create_ndef_record(tnf, record_type, payload, id): the parts and
\* the result
CreateNdefRecord213(debug, tnf, record_type, payload, id) ==
    LET message_flags == CreateMessageFlags(payload, id, tnf)
        prepared_payload ==
            PreparePayloadFixed("NTAG213", debug, record_type, payload)
        header == CreateRecordHeader213(message_flags, record_type,
                                        prepared_payload, id)
    IN  [header |-> header, payload |-> prepared_payload,
         tlv |-> ConstructCompleteRecord213(header, prepared_payload)]

\* ---- the calls made on the encoders

\* c * n
Rep(c, n) == [i \in 1..n |-> c]

Http == <<"h", "t", "t", "p", ":", "/", "/">>
Https == <<"h", "t", "t", "p", "s", ":", "/", "/">>
Www == <<"w", "w", "w", ".">>
ExampleCom == <<"e", "x", "a", "m", "p", "l", "e", ".", "c", "o", "m">>

\* payloads: URIs with each prefix of the table, with part of one, with
\* none; lengths on both sides of 255 and 256 before and after the prefix
\* is removed; a character outside ASCII
PayloadInputs ==
    {Https \o ExampleCom, Https \o Www \o ExampleCom, Http \o Www \o <<"x">>,
     Http \o <<"x">>, <<"f", "t", "p", ":", "/", "/", "x">>,
     <<"h", "t", "t", "p", "s", ":", "/">>, Https, <<>>, <<"x">>,
     <<"eacute">>,
     Https \o Rep("a", 247), Https \o Www \o Rep("a", 248),
     Rep("a", 250), Rep("a", 251), Rep("a", 255), Rep("a", 256),
     Rep("a", 293)}

TypeInputs == {<<"U">>, <<"T">>}
IdInputs == {<<>>, <<"i">>, <<"i", "d">>}
TnfInputs == {1, 4}
PositionInputs == {"only", "first", "middle", "last"}

RecordInputs ==
    {[tnf |-> t, record_type |-> ty, payload |-> p, id |-> i] :
        t \in TnfInputs, ty \in TypeInputs, p \in PayloadInputs, i \in IdInputs}

NdefInputs ==
    {[fn |-> "create_ndef_record",
      arg |-> [tnf |-> r.tnf, record_type |-> r.record_type,
               payload |-> r.payload, record_position |-> pos, id |-> r.id]] :
        r \in RecordInputs, pos \in PositionInputs}
    \cup
    {[fn |-> "combine_ndef_records",
      arg |-> <<CreateNdefRecordPn532(1, <<"T">>, p, "only", <<>>)>>] :
        p \in {<<"x">>, Rep("a", 251), Rep("a", 293)}}
    \cup
    {[fn |-> "combine_ndef_records",
      arg |-> <<CreateNdefRecordPn532(1, <<"U">>, p, "first", <<>>),
                CreateNdefRecordPn532(1, <<"T">>, <<"x">>, "last", <<>>)>>] :
        p \in {Https \o ExampleCom}}
    \cup
    {[fn |-> "_construct_complete_record", arg |-> r] : r \in RecordInputs}
    \cup
    {[fn |-> "_prepare_payload",
      arg |-> [cls |-> c, debug |-> d, record_type |-> ty, payload |-> p]] :
        c \in {"ndef", "NDEF", "NTAG213", "ntag"}, d \in BOOLEAN,
        ty \in TypeInputs, p \in PayloadInputs}
    \cup
    {[fn |-> "NTAG213.create_ndef_record",
      arg |-> [debug |-> d, tnf |-> r.tnf, record_type |-> r.record_type,
               payload |-> r.payload, id |-> r.id]] :
        r \in RecordInputs, d \in BOOLEAN}

\* ---- NTAG.read_ndef_message (src/nfc/tags/ntag/base.py)

\* bytes.decode('utf-8') of a sequence whose bytes are below 0xE0 or above
\* 0xF4 (the inputs hold no lead byte of a 3- or 4-byte sequence): the code
\* points, or <<-1>> where UnicodeDecodeError is raised.  A byte below 0x80
\* is a character, 0xC2..0xDF takes one continuation byte 0x80..0xBF, any
\* other byte is invalid (0xFE and 0xFF never occur in UTF-8).
RECURSIVE DecodeFrom(_, _)
DecodeFrom(b, i) ==
    IF i > Len(b) THEN <<>>
    ELSE IF b[i] < 128
    THEN LET rest == DecodeFrom(b, i + 1)
         IN  IF rest = <<-1>> THEN rest ELSE <<b[i]>> \o rest
    ELSE IF b[i] >= 194 /\ b[i] <= 223 /\ i + 1 <= Len(b)
            /\ b[i + 1] >= 128 /\ b[i + 1] <= 191
    THEN LET rest == DecodeFrom(b, i + 2)
         IN  IF rest = <<-1>> THEN rest
             ELSE <<(b[i] - 192) * 64 + (b[i + 1] - 128)>> \o rest
    ELSE <<-1>>

\* message += bytearray(page) for each page
RECURSIVE JoinPages(_)
JoinPages(pages) ==
    IF Len(pages) = 0 THEN <<>>
    ELSE Head(pages) \o JoinPages(Tail(pages))

\* read_ndef_message once self.user_memory gave um (None when the type or
\* the memory is not known): iterating None raises TypeError
ReadNdefMessage(um) ==
    IF um = None THEN Raise("TypeError", "")
    ELSE LET s == DecodeFrom(JoinPages(um[1]), 1)
         IN  IF s = <<-1>> THEN Raise("UnicodeDecodeError", "") ELSE Ok(s)

\* pages the user memory may hold: parts of a well-formed block
\* (03 05 D1 01 | 01 54 78 FE), text, zeros, a terminator without a tag
UserPages ==
    {<<3, 5, 209, 1>>, <<1, 84, 120, 254>>, <<97, 98, 99, 100>>,
     <<0, 0, 0, 0>>, <<3, 2, 97, 98>>, <<97, 254, 0, 0>>, <<195, 169, 97, 0>>}

ReadNdefInputs ==
    {[fn |-> "read_ndef_message", arg |-> Some(<<p, q>>)] :
        p \in UserPages, q \in UserPages}
    \cup {[fn |-> "read_ndef_message", arg |-> None]}

\* ---- BaseNTAG.tag_type (src/ntag/base_ntag.py)

\* BaseNTAG.memory_size_bytes and pages on the value self.cc gave:
\*   if self.cc: return self.cc[2] * 8      (else None)
\*   if self.memory_size_bytes: return self.memory_size_bytes // 4
Pages(cc) ==
    IF cc.kind = "ok" /\ Len(cc.data) >= 3
    THEN (IF cc.data[3] * 8 # 0 THEN Some((cc.data[3] * 8) \div 4) ELSE None)
    ELSE None

\* BaseNTAG.memory_size_bytes on the value self.cc gave
MemorySizeBytes(cc) ==
    IF cc.kind = "ok" /\ Len(cc.data) > 0 THEN Some(cc.data[3] * 8) ELSE None

\* BaseNTAG.tag_type on the value self.cc gave
TagType(cc) ==
    LET m == MemorySizeBytes(cc)
    IN  IF m # None /\ m[1] # 0
        THEN (IF m[1] = 144 THEN Some("NTAG213")
              ELSE IF m[1] = 504 THEN Some("NTAG215")
              ELSE IF m[1] = 888 THEN Some("NTAG216")
              ELSE None)
        ELSE None

\* size bytes of a Capability Container: the three sub-types, the bytes
\* whose eightfold is 504 and 888, zero, another value
SizeBytes == {18, 62, 109, 63, 111, 0, 6}

TagTypeInputs ==
    {[fn |-> "tag_type", arg |-> Ok(<<225, 16, s, 0>>)] : s \in SizeBytes}
    \cup {[fn |-> "tag_type", arg |-> PyNone]}

\* ---- NTAG.__init__ (src/nfc/tags/ntag/base.py)

\* _fill_memory on a handle with self._pages = pg and an empty self.memory:
\* range(None) raises TypeError; otherwise every page is read, and a page
\* whose read raises keeps its zeros
FillMemory(pg, fails) ==
    IF pg = None
    THEN Raise("TypeError", "'NoneType' object cannot be interpreted as an integer")
    ELSE Ok([p \in 1..pg[1] |->
                IF (p - 1) \in fails THEN <<0, 0, 0, 0>> ELSE TagMemory(p - 1)])

\* _fetch_memory_range(start, end) over self.memory
FetchMemoryRange(memory, range) ==
    IF range[1] # None /\ range[2] # None /\ Len(memory) > 0
    THEN Some(PySlice(memory, range[1][1], range[2][1] + 1))
    ELSE None

\* the handle as its properties show it
HandleOf(props, memory, reads) ==
    [tag_type |-> props.tag_type,
     user_memory_range |-> props.user_memory_range,
     configuration_pages_range |-> props.configuration_pages_range,
     pages |-> props.pages,
     user_memory |-> FetchMemoryRange(memory, props.user_memory_range),
     configurations |-> FetchMemoryRange(memory, props.configuration_pages_range),
     fill_reads |-> reads]

\* NTAG(pn532, uid) when read_block(3) gives cc and the reads of the pages
\* in fails raise
NtagInit(cc, fails) ==
    IF cc.kind = "raise" THEN cc
    ELSE IF cc.kind = "ok" /\ Len(cc.data) > 0
    THEN LET props == DetermineTagProperties(cc.data[2])
             filled == FillMemory(props.pages, fails)
         IN  IF filled.kind = "raise" THEN filled
             ELSE Ok(HandleOf(props, filled.data, Len(filled.data)))
    ELSE Ok(HandleOf(DetermineTagProperties(-1), <<>>, 0))

\* second bytes of the Capability Container read from the tag
CcBytes == {18, 62, 109, 16, 0, 255}

NtagInitInputs ==
    {[fn |-> "NTAG.__init__", arg |-> [cc |-> Ok(<<225, b, 18, 0>>), fails |-> f]] :
        b \in CcBytes, f \in {{}, {5}}}
    \cup {[fn |-> "NTAG.__init__", arg |-> [cc |-> c, fails |-> {}]] :
            c \in {PyNone, Ok(<<>>), Raise("BusyError", "")}}

\* ---- NTAG._get_user_memory_range, _get_configuration_pages_range
\* ---- (src/ntag/NTAG.py)

GetUserMemoryRange(tag_type) ==
    IF tag_type = "NTAG213" THEN <<Some(4), Some(39)>>
    ELSE IF tag_type = "NTAG215" THEN <<Some(4), Some(129)>>
    ELSE IF tag_type = "NTAG216" THEN <<Some(4), Some(225)>>
    ELSE <<None, None>>

GetConfigurationPagesRange(tag_type) ==
    IF tag_type = "NTAG213" THEN <<Some(41), Some(44)>>
    ELSE IF tag_type = "NTAG215" THEN <<Some(130), Some(134)>>
    ELSE IF tag_type = "NTAG216" THEN <<Some(226), Some(231)>>
    ELSE <<None, None>>

\* values of self.tag_type
TagTypes == {"NTAG213", "NTAG215", "NTAG216", "Unknown"}

RangeInputs == {[fn |-> "_get_ranges", arg |-> t] : t \in TagTypes}

UnitInputs ==
    {[fn |-> "_parse_frame", arg |-> raw] : raw \in RawInputs}
    \cup {[fn |-> "_wait_for_ack", arg |-> a] : a \in AckCandidates}
    \cup {[fn |-> "_determine_tag_properties", arg |-> <<b>>] : b \in 0..255}
    \cup NdefInputs
    \cup RangeInputs
    \cup NtagInitInputs
    \cup TagTypeInputs
    \cup ReadNdefInputs

UnitInit ==
    /\ uIn \in UnitInputs
    /\ uOut = NoOutcome
    /\ uDone = FALSE
    \* no frame harness and no driver in this specification
    /\ fPayload = <<>> /\ fFrame = <<>> /\ fRaw = <<>>
    /\ fParsed = NoOutcome /\ fStep = "idle" /\ fMut = -1
    /\ variant = "pn532" /\ phase = "idle" /\ op = "none"
    /\ opState = "returned" /\ opResult = NoOutcome /\ pc = "NoCall"
    /\ command = 0 /\ params = <<>> /\ response_length = 0 /\ ops = <<>>
    /\ callResult = NoOutcome /\ cause = "none" /\ fwAttempts = 0
    /\ fwFirst = NoOutcome /\ stale = -1 /\ staleParams = <<>>
    /\ api = "none" /\ block_number = 0 /\ data = <<>>
    /\ lastCall = [cause |-> "none", result |-> NoOutcome]
    \* no tag handle in this specification
    /\ hApi = "none" /\ hOp = "none" /\ hArgs = <<>> /\ hPc = "idle"
    /\ hIdx = 0 /\ hAcc = <<>> /\ hResult = NoOutcome /\ hIssued = <<>>
    /\ hReported = <<>> /\ hCc = NoOutcome /\ hDepth = 0 /\ hMemory = <<>>
    /\ tagMem = <<>> /\ hAccesses = 0

\* self._parse_frame(packet_data) on raw bytes
ParseRaw ==
    /\ ~uDone /\ uIn.fn = "_parse_frame"
    /\ uOut' = ParseFrame(uIn.arg)
    /\ uDone' = TRUE
    /\ UNCHANGED uIn
    /\ UNCHANGED fvars
    /\ UNCHANGED evars
    /\ UNCHANGED hvars

\* self._wait_for_ack() when _read_data hands it uIn.arg
CheckAck ==
    /\ ~uDone /\ uIn.fn = "_wait_for_ack"
    /\ uOut' = WaitForAck(Ok(uIn.arg))
    /\ uDone' = TRUE
    /\ UNCHANGED uIn
    /\ UNCHANGED fvars
    /\ UNCHANGED evars
    /\ UNCHANGED hvars

\* self._determine_tag_properties(byte)
DetermineTag ==
    /\ ~uDone /\ uIn.fn = "_determine_tag_properties"
    /\ uOut' = DetermineTagProperties(uIn.arg[1])
    /\ uDone' = TRUE
    /\ UNCHANGED uIn
    /\ UNCHANGED fvars
    /\ UNCHANGED evars
    /\ UNCHANGED hvars

\* PN532.create_ndef_record(tnf, record_type, payload, record_position, id)
CreateNdefRecord ==
    /\ ~uDone /\ uIn.fn = "create_ndef_record"
    /\ uOut' = Ok(CreateNdefRecordPn532(uIn.arg.tnf, uIn.arg.record_type,
                                        uIn.arg.payload,
                                        uIn.arg.record_position, uIn.arg.id))
    /\ uDone' = TRUE
    /\ UNCHANGED uIn
    /\ UNCHANGED fvars
    /\ UNCHANGED evars
    /\ UNCHANGED hvars

\* PN532.combine_ndef_records(records)
CombineRecords ==
    /\ ~uDone /\ uIn.fn = "combine_ndef_records"
    /\ uOut' = Ok(CombineNdefRecords(uIn.arg))
    /\ uDone' = TRUE
    /\ UNCHANGED uIn
    /\ UNCHANGED fvars
    /\ UNCHANGED evars
    /\ UNCHANGED hvars

\* NDEF._construct_complete_record(tnf, record_type, payload, id) of
\* ndef/base.py, with the header and the prepared payload it was built from
ConstructCompleteRecord ==
    /\ ~uDone /\ uIn.fn = "_construct_complete_record"
    /\ LET hp == CreateRecordHeaderNdef(uIn.arg.tnf, uIn.arg.record_type,
                                        uIn.arg.payload, uIn.arg.id)
       IN  uOut' = Ok([header |-> hp.header, payload |-> hp.payload,
                       tlv |-> ConstructCompleteRecordNdef(
                                   uIn.arg.tnf, uIn.arg.record_type,
                                   uIn.arg.payload, uIn.arg.id)])
    /\ uDone' = TRUE
    /\ UNCHANGED uIn
    /\ UNCHANGED fvars
    /\ UNCHANGED evars
    /\ UNCHANGED hvars

\* _prepare_payload(record_type, payload) of the class uIn.arg.cls
PreparePayload ==
    /\ ~uDone /\ uIn.fn = "_prepare_payload"
    /\ uOut' = Ok(IF uIn.arg.cls = "ndef"
                  THEN PreparePayloadNdef(uIn.arg.record_type, uIn.arg.payload)
                  ELSE PreparePayloadFixed(uIn.arg.cls, uIn.arg.debug,
                                           uIn.arg.record_type, uIn.arg.payload))
    /\ uDone' = TRUE
    /\ UNCHANGED uIn
    /\ UNCHANGED fvars
    /\ UNCHANGED evars
    /\ UNCHANGED hvars

\* NTAG213.create_ndef_record(tnf, record_type, payload, id)
CreateNdefRecordNtag213 ==
    /\ ~uDone /\ uIn.fn = "NTAG213.create_ndef_record"
    /\ uOut' = Ok(CreateNdefRecord213(uIn.arg.debug, uIn.arg.tnf,
                                      uIn.arg.record_type, uIn.arg.payload,
                                      uIn.arg.id))
    /\ uDone' = TRUE
    /\ UNCHANGED uIn
    /\ UNCHANGED fvars
    /\ UNCHANGED evars
    /\ UNCHANGED hvars

\* NTAG.read_ndef_message() when self.user_memory is uIn.arg
ReadNdefMessageCall ==
    /\ ~uDone /\ uIn.fn = "read_ndef_message"
    /\ uOut' = ReadNdefMessage(uIn.arg)
    /\ uDone' = TRUE
    /\ UNCHANGED uIn
    /\ UNCHANGED fvars
    /\ UNCHANGED evars
    /\ UNCHANGED hvars

\* BaseNTAG.tag_type and BaseNTAG.pages when self.cc is uIn.arg
TagTypeCall ==
    /\ ~uDone /\ uIn.fn = "tag_type"
    /\ uOut' = Ok([tag_type |-> TagType(uIn.arg), pages |-> Pages(uIn.arg)])
    /\ uDone' = TRUE
    /\ UNCHANGED uIn
    /\ UNCHANGED fvars
    /\ UNCHANGED evars
    /\ UNCHANGED hvars

\* NTAG(pn532, uid)
NtagInitCall ==
    /\ ~uDone /\ uIn.fn = "NTAG.__init__"
    /\ uOut' = NtagInit(uIn.arg.cc, uIn.arg.fails)
    /\ uDone' = TRUE
    /\ UNCHANGED uIn
    /\ UNCHANGED fvars
    /\ UNCHANGED evars
    /\ UNCHANGED hvars

\* self._get_user_memory_range() and self._get_configuration_pages_range()
\* when self.tag_type is uIn.arg
GetRanges ==
    /\ ~uDone /\ uIn.fn = "_get_ranges"
    /\ uOut' = Ok([user_memory_range |-> GetUserMemoryRange(uIn.arg),
                   configuration_pages_range |-> GetConfigurationPagesRange(uIn.arg)])
    /\ uDone' = TRUE
    /\ UNCHANGED uIn
    /\ UNCHANGED fvars
    /\ UNCHANGED evars
    /\ UNCHANGED hvars

UnitNext ==
    ParseRaw \/ CheckAck \/ DetermineTag \/ CreateNdefRecord \/ CombineRecords
    \/ ConstructCompleteRecord \/ PreparePayload \/ CreateNdefRecordNtag213
    \/ ReadNdefMessageCall
    \/ TagTypeCall
    \/ NtagInitCall
    \/ GetRanges

(***************************************************************************)
(* Tag handles: methods that loop over pages.  One page command is one     *)
(* whole _call_function call, with the outcomes the command engine has.    *)
(***************************************************************************)
\* cc accesses made on one handle
MaxAccesses == 2

\* nested frames of BaseNTAG.cc the interpreter's recursion limit allows
MaxCcDepth == 3

\* the classes with a handle
Handles == {"BaseNTAG", "PN532", "NTAG213", "ntag"}

\* the adapter classes of src/nfc/communication
Adapters == {"PN532_UART", "PN532_I2C", "PN532_SPI"}

\* the tag classes that cache memory sections
Chips == {"MIFARE"}

\* the page methods a handle class uses: ntag2xx_read_block and
\* ntag2xx_write_block of the driver, or read_block and write_block of
\* NTAG213 (those of src/ntag/ntag.py are the same statements)
BlockApi(h) == IF h = "PN532" THEN "PN532" ELSE "NTAG213"

\* content of page p of the tag after the writes recorded in tm
Mem(tm, p) == IF p \in DOMAIN tm THEN tm[p] ELSE TagMemory(p)

\* tm after the tag stored d in page p
Store(tm, p, d) ==
    [q \in (DOMAIN tm) \cup {p} |-> IF q = p THEN d ELSE tm[q]]

\* what the device answers to InDataExchange with params prm when the tag
\* holds tm: as ExchangeBodies, with the pages read from tm
HandleBodies(tm, prm) ==
    {<<st>> : st \in ErrStatuses}
    \cup (IF prm[2] = NTAG_CMD_READ /\ prm[3] < TagPages
          THEN {<<0>> \o Mem(tm, prm[3] % TagPages)
                      \o Mem(tm, (prm[3] + 1) % TagPages)
                      \o Mem(tm, (prm[3] + 2) % TagPages)
                      \o Mem(tm, (prm[3] + 3) % TagPages)}
          ELSE {})
    \cup (IF prm[2] = NTAG_CMD_WRITE /\ prm[3] < TagPages /\ Len(prm) = 7
          THEN {<<0>>} ELSE {})

\* one _call_function(InDataExchange, params=prm, response_length=rlen) as a
\* whole: what it returns or raises (r) and the body the device answered
\* with (<<>> when the command never reached it).  The cases are those of
\* WriteFrame, WaitForAckStep, WaitReadyStep and ReadFrameStep.
CallOutcomes(tm, prm, rlen) ==
    LET c == PN532_CMD_INDATAEXCHANGE
        bodies == HandleBodies(tm, prm)
        count == ReadCount(rlen)
        ackfail(rd) == LET a == WaitForAck(rd)
                       IN  IF a.kind = "raise" THEN a ELSE PyNone
    IN  {[r |-> OnWriteError.result, body |-> <<>>]}
        \cup {[r |-> ackfail(rd), body |-> b] :
                rd \in {x \in AckReads : WaitForAck(x) # Ok(<<1>>)},
                b \in bodies \cup {<<>>}}
        \cup {[r |-> PyNone, body |-> b] :
                b \in {x \in bodies : AfterWaitReady(FALSE) = "Failed"}}
        \cup {[r |-> CallReturn(ReadFrame(
                        Ok(Delivered(BuildFrame(<<PN532TOHOST, c + 1>> \o b),
                                     count)))),
               body |-> b] : b \in bodies}
        \cup {[r |-> CallReturn(ReadFrame(
                        Ok(Delivered(BadDcs(BuildFrame(<<PN532TOHOST, c + 1>> \o b)),
                                     count)))),
               body |-> b] : b \in bodies}
        \cup {[r |-> CallReturn(ReadFrame(rd)), body |-> b] :
                rd \in {Raise("BusyError", ""), PyNone}, b \in bodies}

\* read_block(n) of handle class h as a whole: its outcome r, whether a
\* command was handed to the driver
PageRead(h, tm, n) ==
    LET a == BlockApi(h)
    IN  IF ReadPre(a, n) # NoOutcome
        THEN {[r |-> ReadPre(a, n), sent |-> FALSE]}
        ELSE {[r |-> ReadResult(a, o.r), sent |-> TRUE] :
                o \in CallOutcomes(tm, ReadParams(n), 17)}

\* write_block(n, d) of handle class h as a whole: its outcome r, whether a
\* command was handed to the driver, whether the tag stored d
PageWrite(h, tm, n, d) ==
    LET a == BlockApi(h)
    IN  IF WritePre(a, n, d) # NoOutcome
        THEN {[r |-> WritePre(a, n, d), sent |-> FALSE, stored |-> FALSE]}
        ELSE {[r |-> WriteResult(a, o.r), sent |-> TRUE,
               stored |-> (o.body = <<0>>)] :
                o \in CallOutcomes(tm, WriteParams(n, d), 1)}

\* a page method call as the handle's history keeps it
Issued(cmd, n, d, o) ==
    [cmd |-> cmd, page |-> n, data |-> d, r |-> o.r, sent |-> o.sent]

\* NTAG.__init__ and set_initial_configurations of src/ntag/ntag.py: 45
\* pages of zeros, then pages 3, 4, 5, 41 and 42
InitialMemory ==
    [p \in 0..(TagPages - 1) |->
        IF p = 3 THEN <<225, 16, 18, 0>>
        ELSE IF p = 4 THEN <<1, 3, 160, 12>>
        ELSE IF p = 5 THEN <<52, 3, 0, 254>>
        ELSE IF p = 41 THEN <<212, 0, 11, 255>>
        ELSE IF p = 42 THEN <<16, 0, 0, 0>>
        ELSE <<0, 0, 0, 0>>]

HandleInit ==
    /\ hApi \in Handles \cup Adapters \cup Chips
    /\ hOp = "none"
    /\ hArgs = <<>>
    /\ hPc = "idle"
    /\ hIdx = 0
    /\ hAcc = <<>>
    /\ hResult = NoOutcome
    /\ hIssued = <<>>
    /\ hReported = <<>>
    /\ hCc = PyNone
    /\ hDepth = 0
    /\ hMemory = IF hApi = "ntag" THEN InitialMemory ELSE <<>>
    /\ tagMem = <<>>
    /\ hAccesses = 0
    \* the driver is constructed and idle; no harness, no single call
    /\ fPayload = <<>> /\ fFrame = <<>> /\ fRaw = <<>>
    /\ fParsed = NoOutcome /\ fStep = "idle" /\ fMut = -1
    /\ variant = "pn532" /\ phase = "idle" /\ op = "none"
    /\ opState = "returned" /\ opResult = NoOutcome /\ pc = "NoCall"
    /\ command = 0 /\ params = <<>> /\ response_length = 0 /\ ops = <<>>
    /\ callResult = NoOutcome /\ cause = "none" /\ fwAttempts = 0
    /\ fwFirst = NoOutcome /\ stale = -1 /\ staleParams = <<>>
    /\ api = "none" /\ block_number = 0 /\ data = <<>>
    /\ lastCall = [cause |-> "none", result |-> NoOutcome]
    /\ uIn = [fn |-> "none", arg |-> <<>>] /\ uOut = NoOutcome /\ uDone = TRUE

\* the method returns or raises
HandleDone(r) ==
    /\ hPc' = "done"
    /\ hResult' = r

\* ---- BaseNTAG.cc (src/ntag/base_ntag.py)

\* BaseNTAG.read_block(n) once self.pages gave pg: the comparison with None
\* raises TypeError; the driver has no mifare_classic_read_block
ReadBlockBase(pg, n) ==
    IF pg = None THEN Raise("TypeError", "")
    ELSE IF ~(0 <= n /\ n < pg[1]) THEN Raise("ValueError", BlockRangeMsg)
    ELSE Raise("AttributeError", "")

\* the body of the cc getter once read_block(3) gave r: _cc is assigned
\* only when no exception was raised
CcAssign(cc, r) == IF r.kind = "raise" THEN cc ELSE r

\* an access to self.cc: with _cc set the getter returns it; with _cc None
\* it calls read_block(3), whose range check evaluates self.pages, which
\* evaluates self.memory_size_bytes, which evaluates self.cc
CcAccess ==
    /\ hApi = "BaseNTAG" /\ hPc \in {"idle", "done"}
    /\ hAccesses < MaxAccesses
    /\ hOp' = "cc"
    /\ IF hCc.kind # "None"
       THEN /\ HandleDone(hCc)
            /\ hAccesses' = hAccesses + 1
            /\ UNCHANGED hDepth
       ELSE /\ hPc' = "running"
            /\ hResult' = NoOutcome
            /\ hDepth' = 1
            /\ UNCHANGED hAccesses
    /\ UNCHANGED <<hApi, hArgs, hIdx, hAcc, hIssued, hReported, hCc, hMemory,
                   tagMem>>
    /\ UNCHANGED fvars
    /\ UNCHANGED evars
    /\ UNCHANGED uvars

\* the innermost getter's read_block(3) reaches self.cc again: one more
\* getter frame, or RecursionError when the interpreter allows none; the
\* getter that made the call catches it (except Exception) and returns _cc
CcNest ==
    /\ hOp = "cc" /\ hPc = "running"
    /\ IF hDepth < MaxCcDepth
       THEN /\ hDepth' = hDepth + 1
            /\ UNCHANGED <<hPc, hResult, hReported, hAccesses>>
       ELSE /\ hDepth' = hDepth - 1
            /\ hReported' = Append(hReported, 3)
            /\ IF hDepth > 1
               THEN /\ hPc' = "unwinding"
                    /\ UNCHANGED <<hResult, hAccesses>>
               ELSE /\ HandleDone(hCc)
                    /\ hAccesses' = hAccesses + 1
    /\ UNCHANGED <<hApi, hOp, hArgs, hIdx, hAcc, hIssued, hCc, hMemory,
                   tagMem>>
    /\ UNCHANGED fvars
    /\ UNCHANGED evars
    /\ UNCHANGED uvars

\* the innermost getter returned _cc to memory_size_bytes of the getter
\* around it, whose read_block(3) goes on with that value of self.pages
CcUnwind ==
    /\ hOp = "cc" /\ hPc = "unwinding"
    /\ LET r == ReadBlockBase(Pages(hCc), 3)
           cc == CcAssign(hCc, r)
       IN  /\ hCc' = cc
           /\ hIssued' = IF r.exc \in {"TypeError", "ValueError"} THEN hIssued
                         ELSE Append(hIssued,
                                Issued("read", 3, <<>>, [r |-> r, sent |-> TRUE]))
           /\ hReported' = IF r.kind = "raise" THEN Append(hReported, 3)
                           ELSE hReported
           /\ IF hDepth > 1
              THEN /\ hDepth' = hDepth - 1
                   /\ UNCHANGED <<hPc, hResult, hAccesses>>
              ELSE /\ hDepth' = 0
                   /\ HandleDone(cc)
                   /\ hAccesses' = hAccesses + 1
    /\ UNCHANGED <<hApi, hOp, hArgs, hIdx, hAcc, hMemory, tagMem>>
    /\ UNCHANGED fvars
    /\ UNCHANGED evars
    /\ UNCHANGED uvars

\* ---- dump (PN532.ntag2xx_dump, NTAG213.dump, NTAG.dump of ntag.py)

HexDigits == <<"0", "1", "2", "3", "4", "5", "6", "7",
               "8", "9", "A", "B", "C", "D", "E", "F">>

\* '%02X' % x
Hex2(x) == HexDigits[(x \div 16) + 1] \o HexDigits[(x % 16) + 1]

\* ' '.join(['%02X' % x for x in block_data])
RECURSIVE FormatBlock(_)
FormatBlock(d) ==
    IF Len(d) = 0 THEN ""
    ELSE IF Len(d) = 1 THEN Hex2(d[1])
    ELSE Hex2(d[1]) \o " " \o FormatBlock(Tail(d))

\* the ranges dump is called with
DumpArgs ==
    {[start_block |-> 0, end_block |-> 2],
     [start_block |-> 2, end_block |-> 4],
     [start_block |-> 44, end_block |-> 45],
     [start_block |-> 4, end_block |-> 3]}

\* one pass of dump's loop body on what read_block gave: the list after it,
\* whether the loop goes on, the page reported, and the exception that
\* leaves dump when it catches none
\*   PN532:   except PN532Error: print; break / except Exception: print; break
\*   NTAG213: if block_data is None: print; break
DumpPass(h, acc, n, r) ==
    IF r.kind = "ok"
    THEN [acc |-> Append(acc, FormatBlock(r.data)), go |-> TRUE,
          reported |-> <<>>, raised |-> NoOutcome]
    ELSE IF h = "PN532" \/ r.kind = "None"
    THEN [acc |-> acc, go |-> FALSE, reported |-> <<n>>, raised |-> NoOutcome]
    ELSE [acc |-> acc, go |-> FALSE, reported |-> <<>>, raised |-> r]

\* dump(start_block, end_block) is called: range(start, end + 1) may be empty
DumpBegin ==
    /\ hApi \in {"PN532", "NTAG213", "ntag"} /\ hPc = "idle"
    /\ \E a \in DumpArgs :
          /\ hArgs' = a
          /\ hIdx' = a.start_block
          /\ IF a.start_block > a.end_block
             THEN HandleDone(Ok(<<>>))
             ELSE hPc' = "running" /\ hResult' = NoOutcome
    /\ hOp' = "dump"
    /\ hAcc' = <<>>
    /\ UNCHANGED <<hApi, hIssued, hReported, hCc, hDepth, hMemory, tagMem,
                   hAccesses>>
    /\ UNCHANGED fvars
    /\ UNCHANGED evars
    /\ UNCHANGED uvars

\* one pass of the loop: read_block(block_number), then append, break,
\* return all_data after the last page, or leave by an exception
DumpStep ==
    /\ hOp = "dump" /\ hPc = "running"
    /\ \E o \in PageRead(hApi, tagMem, hIdx) :
          LET p == DumpPass(hApi, hAcc, hIdx, o.r)
          IN  /\ hIssued' = Append(hIssued, Issued("read", hIdx, <<>>, o))
              /\ hAcc' = p.acc
              /\ hReported' = hReported \o p.reported
              /\ IF p.raised # NoOutcome THEN HandleDone(p.raised)
                 ELSE IF p.go /\ hIdx < hArgs.end_block
                 THEN hPc' = "running" /\ hResult' = NoOutcome
                 ELSE HandleDone(Ok(p.acc))
              /\ hIdx' = IF p.go /\ hIdx < hArgs.end_block THEN hIdx + 1
                         ELSE hIdx
    /\ UNCHANGED <<hApi, hOp, hArgs, hCc, hDepth, hMemory, tagMem, hAccesses>>
    /\ UNCHANGED fvars
    /\ UNCHANGED evars
    /\ UNCHANGED uvars

\* ---- write_ndef_message (PN532, NTAG213) and write_ndef (ntag.py)

\* the byte string of n bytes the caller passes (no byte of it is 0x00)
Message(n) == [i \in 1..n |-> (i % 250) + 1]

\* first page of the NDEF area in write_ndef of ntag.py
NdefStart == 5

\* first page write_ndef of ntag.py sends to the tag
FlushStart == 3

\* the calls made: write_ndef_message(ndef_message, start_block) and, for
\* ntag.py, write_ndef(ndef_message)
NdefArgs(h) ==
    IF h = "ntag"
    THEN {[ndef_message |-> Message(n), start_block |-> NdefStart] :
            n \in {0, 1, 6, 160, 161}}
    ELSE {[ndef_message |-> Message(n), start_block |-> 5] : n \in {0, 1, 4, 6, 9}}
         \cup {[ndef_message |-> Message(n), start_block |-> 44] : n \in {4, 5}}
         \cup {[ndef_message |-> Message(9), start_block |-> 43]}
         \cup {[ndef_message |-> Message(4), start_block |-> 259]}

\* block_data = ndef_message[i:i + 4], padded with 0x00 to 4 bytes
Chunk(msg, i) ==
    LET c == PySlice(msg, i, i + 4)
    IN  c \o Zeros(4 - Len(c))

\* write_ndef of ntag.py before its first write: the length check, then the
\* chunks stored in self.memory from page 5
\*   if ndef_length > max_blocks * 4: raise ValueError(...)
StoreMessage(mem, msg) ==
    IF Len(msg) > (Cardinality(DOMAIN mem) - NdefStart) * 4
    THEN [mem |-> mem, raised |-> TRUE]
    ELSE [mem |-> [p \in DOMAIN mem |->
                     IF p >= NdefStart /\ (p - NdefStart) * 4 < Len(msg)
                     THEN Chunk(msg, (p - NdefStart) * 4) ELSE mem[p]],
          raised |-> FALSE]

\* whether the loop goes on after write_block gave r
\*   PN532, NTAG213: the value is dropped, an exception ends the loop
\*   ntag.py:        if not success: return False
WriteGoesOn(h, r) ==
    IF h = "ntag" THEN r = Ok(<<1>>) ELSE r.kind = "ok"

\* every chunk written to the page the message starts at
WritePageFixed(h, a, i) == IF h = "ntag" THEN i ELSE a.start_block

\* the page and the data of the pass with loop variable i
WritePage(h, a, i) == IF h = "ntag" THEN i ELSE a.start_block + i \div 4

WriteData(h, a, mem, i) ==
    IF h = "ntag" THEN mem[i] ELSE Chunk(a.ndef_message, i)

\* the loop variable after the last pass
WriteLast(h, a, mem) ==
    IF h = "ntag" THEN Cardinality(DOMAIN mem) - 1
    ELSE ((Len(a.ndef_message) - 1) \div 4) * 4

\* the method is called; an empty range makes it return True at once
WriteBegin ==
    /\ hApi \in {"PN532", "NTAG213", "ntag"} /\ hPc = "idle"
    /\ hOp' = "write"
    /\ \E a \in NdefArgs(hApi) :
          /\ hArgs' = a
          /\ IF hApi = "ntag"
             THEN LET st == StoreMessage(hMemory, a.ndef_message)
                  IN  /\ hMemory' = st.mem
                      /\ hIdx' = FlushStart
                      /\ IF st.raised
                         THEN /\ HandleDone(Ok(<<0>>))
                              /\ hReported' = Append(hReported, -1)
                         ELSE /\ hPc' = "running" /\ hResult' = NoOutcome
                              /\ UNCHANGED hReported
             ELSE /\ hIdx' = 0
                  /\ IF Len(a.ndef_message) = 0
                     THEN HandleDone(Ok(<<1>>))
                     ELSE hPc' = "running" /\ hResult' = NoOutcome
                  /\ UNCHANGED <<hMemory, hReported>>
    /\ UNCHANGED <<hApi, hAcc, hIssued, hCc, hDepth, tagMem, hAccesses>>
    /\ UNCHANGED fvars
    /\ UNCHANGED evars
    /\ UNCHANGED uvars

\* one pass of the loop: write_block, then go on, return True after the
\* last pass, or return False
WriteStep ==
    /\ hOp = "write" /\ hPc = "running"
    /\ LET n == WritePage(hApi, hArgs, hIdx)
           d == WriteData(hApi, hArgs, hMemory, hIdx)
           last == hIdx >= WriteLast(hApi, hArgs, hMemory)
       IN  \E o \in PageWrite(hApi, tagMem, n, d) :
              /\ hIssued' = Append(hIssued,
                                   Issued("write", n, d, [r |-> o.r, sent |-> o.sent]))
              /\ tagMem' = IF o.stored THEN Store(tagMem, And255(n), d) ELSE tagMem
              /\ hReported' = IF o.r = Ok(<<1>>) THEN hReported
                              ELSE Append(hReported, n)
              /\ IF ~WriteGoesOn(hApi, o.r) THEN HandleDone(Ok(<<0>>))
                 ELSE IF last THEN HandleDone(Ok(<<1>>))
                 ELSE hPc' = "running" /\ hResult' = NoOutcome
              /\ hIdx' = IF WriteGoesOn(hApi, o.r) /\ ~last
                         THEN (IF hApi = "ntag" THEN hIdx + 1 ELSE hIdx + 4)
                         ELSE hIdx
    /\ UNCHANGED <<hApi, hOp, hArgs, hAcc, hCc, hDepth, hMemory, hAccesses>>
    /\ UNCHANGED fvars
    /\ UNCHANGED evars
    /\ UNCHANGED uvars

\* ---- PN532._call_function over the bus adapters
\* ---- (src/nfc/communication/pn532/base.py, uart.py, i2c.py, spi.py)

\* nested frames of _call_function the interpreter's recursion limit allows
MaxCallDepth == 3

\* one operation on the bus as the history keeps it
BusOp(cmd, r) == [cmd |-> cmd, page |-> -1, data |-> <<>>, r |-> r, sent |-> TRUE]

\* what _call_function does once _write_frame has returned: no ACK or not
\* ready (None), the response, BusyError of _read_data, RuntimeError of
\* _read_frame
AfterWrite ==
    {PyNone, Ok(<<50, 1, 6, 7>>), Raise("BusyError", ""), Raise("RuntimeError", "")}

\* what a frame of _call_function gives its caller when the call it made
\* from the except handler (_wakeup, then SAM_configuration) has given r:
\* an exception goes on, anything else is dropped and None is returned
FromHandler(r) == IF r.kind = "raise" THEN r ELSE PyNone

\* _get_firmware_version on the value _call_function gave
FirmwareVersion(r) ==
    IF r.kind = "raise" THEN r
    ELSE IF r = PyNone THEN Raise("RuntimeError", "Failed to detect the PN532")
    ELSE PyNone

\* except (BusyError, RuntimeError): RecursionError is a RuntimeError
CaughtInInit(r) ==
    r.kind = "raise" /\ r.exc \in {"BusyError", "RuntimeError", "RecursionError"}

\* a call of _call_function starts: hDepth counts its live frames; beyond
\* the recursion limit the call raises RecursionError instead
EnterCall ==
    IF hDepth = MaxCallDepth
    THEN /\ hPc' = "unwind" /\ hResult' = Raise("RecursionError", "")
         /\ UNCHANGED hDepth
    ELSE /\ hPc' = "write" /\ hResult' = NoOutcome
         /\ hDepth' = hDepth + 1

\* a caller invokes _call_function on an idle driver
CallBegin ==
    /\ hApi \in Adapters /\ hPc = "idle"
    /\ hOp' = "call" /\ hIdx' = 0
    /\ EnterCall
    /\ UNCHANGED <<hApi, hArgs, hAcc, hIssued, hReported, hCc, hMemory, tagMem,
                   hAccesses>>
    /\ UNCHANGED fvars
    /\ UNCHANGED evars
    /\ UNCHANGED uvars

\* PN532.__init__ (no reset pin) starts: self._wakeup() comes first, then
\* the two _get_firmware_version (hIdx is 1, 2, 3)
InitBegin ==
    /\ hApi \in Adapters /\ hPc = "idle"
    /\ hOp' = "init" /\ hIdx' = 1
    /\ hPc' = "wakeup"
    /\ UNCHANGED <<hApi, hArgs, hAcc, hResult, hIssued, hReported, hCc, hDepth,
                   hMemory, tagMem, hAccesses>>
    /\ UNCHANGED fvars
    /\ UNCHANGED evars
    /\ UNCHANGED uvars

\* self._write_frame(packet_data): returns, or raises OSError into the
\* except handler
CallWrite ==
    /\ hOp \in {"call", "init"} /\ hPc = "write"
    /\ \E r \in {PyNone, Raise("OSError", "")} :
          /\ hIssued' = Append(hIssued, BusOp("_write_data", r))
          /\ hPc' = IF r = PyNone THEN "exchange" ELSE "wakeup"
    /\ UNCHANGED <<hApi, hOp, hArgs, hIdx, hAcc, hResult, hReported, hCc,
                   hDepth, hMemory, tagMem, hAccesses>>
    /\ UNCHANGED fvars
    /\ UNCHANGED evars
    /\ UNCHANGED uvars

\* the rest of _call_function after the frame went out
CallExchange ==
    /\ hOp \in {"call", "init"} /\ hPc = "exchange"
    /\ \E r \in AfterWrite :
          /\ hIssued' = Append(hIssued, BusOp("exchange", r))
          /\ hResult' = r
    /\ hPc' = "unwind"
    /\ UNCHANGED <<hApi, hOp, hArgs, hIdx, hAcc, hReported, hCc, hDepth,
                   hMemory, tagMem, hAccesses>>
    /\ UNCHANGED fvars
    /\ UNCHANGED evars
    /\ UNCHANGED uvars

\* self._wakeup(): the I2C and SPI adapters toggle a pin or write one byte
\* and return; PN532_UART writes the wake-up bytes to the port (the write
\* may raise) and then calls self.SAM_configuration(), which is a
\* _call_function
Wakeup ==
    /\ hOp \in {"call", "init"} /\ hPc = "wakeup"
    /\ IF hApi = "PN532_UART"
       THEN \E r \in {PyNone, Raise("OSError", "")} :
               /\ hIssued' = Append(hIssued, BusOp("_wakeup", r))
               /\ IF r = PyNone
                  THEN EnterCall
                  ELSE hPc' = "unwind" /\ hResult' = r /\ UNCHANGED hDepth
       ELSE /\ hIssued' = Append(hIssued, BusOp("_wakeup", PyNone))
            /\ hPc' = "unwind" /\ hResult' = PyNone /\ UNCHANGED hDepth
    /\ UNCHANGED <<hApi, hOp, hArgs, hIdx, hAcc, hReported, hCc, hMemory,
                   tagMem, hAccesses>>
    /\ UNCHANGED fvars
    /\ UNCHANGED evars
    /\ UNCHANGED uvars

\* __init__ goes on after a step gave r: the first self._wakeup(), the
\* guarded _get_firmware_version, the last _get_firmware_version
InitGoesOn(r) ==
    IF hIdx = 1
    THEN IF r.kind = "raise"
         THEN HandleDone(r) /\ hDepth' = 0 /\ UNCHANGED hIdx
         ELSE hIdx' = 2 /\ hPc' = "write" /\ hResult' = NoOutcome /\ hDepth' = 1
    ELSE IF hIdx = 2
    THEN IF FirmwareVersion(r).kind = "raise" /\ ~CaughtInInit(FirmwareVersion(r))
         THEN HandleDone(FirmwareVersion(r)) /\ hDepth' = 0 /\ UNCHANGED hIdx
         ELSE hIdx' = 3 /\ hPc' = "write" /\ hResult' = NoOutcome /\ hDepth' = 1
    ELSE HandleDone(FirmwareVersion(r)) /\ hDepth' = 0 /\ UNCHANGED hIdx

\* a frame ends with hResult: the frame below it (which called it from its
\* except handler) ends in turn, and the outermost hands it to the caller
CallUnwind ==
    /\ hOp \in {"call", "init"} /\ hPc = "unwind"
    /\ IF hDepth > 1
       THEN /\ hDepth' = hDepth - 1
            /\ hResult' = FromHandler(hResult)
            /\ UNCHANGED <<hPc, hIdx>>
       ELSE IF hOp = "call"
       THEN HandleDone(hResult) /\ hDepth' = 0 /\ UNCHANGED hIdx
       ELSE InitGoesOn(hResult)
    /\ UNCHANGED <<hApi, hOp, hArgs, hAcc, hIssued, hReported, hCc, hMemory,
                   tagMem, hAccesses>>
    /\ UNCHANGED fvars
    /\ UNCHANGED evars
    /\ UNCHANGED uvars

\* ---- MIFARE._fetch_section and fill_memory (src/nfc/tags/mifare/base.py;
\* ---- src/ntag/NTAG.py has the same statements)

\* fill_memory and section accesses made on one handle
MaxSectionOps == 4

\* pages whose read_block raises during one fill_memory
FailedReads == {{}, {3}, {3, 4}}

\* self.memory after fill_memory when the reads of the pages in f raise:
\* an empty memory is first made of pages of block_size zeros, then every page read
\* replaces its entry
MemoryFilled(memory, tm, f) ==
    [p \in 0..(TagPages - 1) |->
        IF p \in f
        THEN (IF memory = <<>> THEN Zeros(16) ELSE memory[p])
        ELSE Mem(tm, p)]

\* _fetch_section(3, 3) with the attribute _section_3_3 holding cached:
\* the slice is taken and stored only while nothing is stored
FetchSection(cached, memory) ==
    IF cached = PyNone /\ memory # <<>> THEN Ok(<<memory[3]>>) ELSE cached

\* fill_memory()
SectionFill ==
    /\ hApi \in Chips /\ hPc \in {"idle", "done"}
    /\ hAccesses < MaxSectionOps
    /\ \E f \in FailedReads : hMemory' = MemoryFilled(hMemory, tagMem, f)
    /\ hOp' = "fill_memory"
    /\ HandleDone(PyNone)
    /\ hAccesses' = hAccesses + 1
    /\ UNCHANGED <<hApi, hArgs, hIdx, hAcc, hIssued, hReported, hCc, hDepth,
                   tagMem>>
    /\ UNCHANGED fvars
    /\ UNCHANGED evars
    /\ UNCHANGED uvars

\* the capability_container property
SectionAccess ==
    /\ hApi \in Chips /\ hPc \in {"idle", "done"}
    /\ hAccesses < MaxSectionOps
    /\ hCc' = FetchSection(hCc, hMemory)
    /\ hOp' = "capability_container"
    /\ HandleDone(FetchSection(hCc, hMemory))
    /\ hAccesses' = hAccesses + 1
    /\ UNCHANGED <<hApi, hArgs, hIdx, hAcc, hIssued, hReported, hDepth, hMemory,
                   tagMem>>
    /\ UNCHANGED fvars
    /\ UNCHANGED evars
    /\ UNCHANGED uvars

\* ---- NTAG213.set_mirror_configuration, get_mirror_configuration
\* ---- (src/ntag/ntag213.py; src/nfc/helpers/temp_ntag.py has the same
\* ---- statements)

\* constants of the module constants, which the repository imports
CONFIG_PAGE_START == 41
CONFIG_PAGE_END == 44
MIRROR_CONF_BIT_POS == 6
MIRROR_BYTE_BIT_POS == 4

\* the type of the buffer _read_data hands up through _parse_frame,
\* _call_function and read_block (slices keep the type): bytes from the
\* I2C and UART adapters, a mutable sequence from the SPI adapter
Buffers == {"bytes", "mutable"}

\* read_config_page(page) and write_config_page(page, data) before the
\* page method is called
ConfigPagePre(page) ==
    IF ~(CONFIG_PAGE_START <= page /\ page <= CONFIG_PAGE_END)
    THEN Raise("ValueError", "Page number out of configuration range")
    ELSE NoOutcome

\* x & ~m on bytes
AndNot8(x, m) ==
    Sum([k \in 1..8 |->
            IF (x \div (2 ^ (k - 1))) % 2 = 1 /\ (m \div (2 ^ (k - 1))) % 2 = 0
            THEN 2 ^ (k - 1) ELSE 0])

\* (0b11 << _MIRROR_CONF_BIT_POS) | (0b11 << _MIRROR_BYTE_BIT_POS)
MirrorMask == Or8(3 * (2 ^ MIRROR_CONF_BIT_POS), 3 * (2 ^ MIRROR_BYTE_BIT_POS))

\* the three assignments of set_mirror_configuration on a page of 3 bytes
\* or more
SetMirror(config_page, c, b, p) ==
    [config_page EXCEPT
        ![1] = Or8(AndNot8(@, MirrorMask),
                   Or8(c * (2 ^ MIRROR_CONF_BIT_POS), b * (2 ^ MIRROR_BYTE_BIT_POS))),
        ![3] = p]

\* set_mirror_configuration after read_config_page(41) gave r in a buffer
\* of type buf: the exception of the read or of the assignments, or the
\* page to write
MirrorPage(r, buf, c, b, p) ==
    IF r.kind = "raise" THEN r
    ELSE IF r.kind = "None" THEN Raise("TypeError", "")
    ELSE IF Len(r.data) < 1 THEN Raise("IndexError", "")
    ELSE IF buf = "bytes" THEN Raise("TypeError", "")
    ELSE IF Len(r.data) < 3 THEN Raise("IndexError", "")
    ELSE Ok(SetMirror(r.data, c, b, p))

\* get_mirror_configuration after read_config_page(41) gave r
GetMirror(r) ==
    IF r.kind = "raise" THEN r
    ELSE IF r.kind = "None" THEN Raise("TypeError", "")
    ELSE IF Len(r.data) < 3 THEN Raise("IndexError", "")
    ELSE Ok(<<(r.data[1] \div (2 ^ MIRROR_CONF_BIT_POS)) % 4,
              (r.data[1] \div (2 ^ MIRROR_BYTE_BIT_POS)) % 4,
              r.data[3]>>)

\* the calls made
MirrorArgs ==
    {[mirror_conf |-> c, mirror_byte |-> b, mirror_page |-> p, buffer |-> buf] :
        c \in 0..3, b \in {0, 1, 3}, p \in {0, 255}, buf \in Buffers}

\* set_mirror_configuration up to the call of write_config_page
MirrorSetRead ==
    /\ hApi = "NTAG213" /\ hPc = "idle"
    /\ hOp' = "set_mirror"
    /\ \E a \in MirrorArgs :
          /\ hArgs' = a
          /\ \E o \in PageRead(hApi, tagMem, 41) :
                LET pg == MirrorPage(o.r, a.buffer, a.mirror_conf, a.mirror_byte,
                                     a.mirror_page)
                IN  /\ hIssued' = Append(hIssued, Issued("read", 41, <<>>, o))
                    /\ IF pg.kind = "raise"
                       THEN HandleDone(pg) /\ UNCHANGED hAcc
                       ELSE hPc' = "write41" /\ hResult' = NoOutcome /\ hAcc' = pg.data
    /\ UNCHANGED <<hApi, hIdx, hReported, hCc, hDepth, hMemory, tagMem, hAccesses>>
    /\ UNCHANGED fvars
    /\ UNCHANGED evars
    /\ UNCHANGED uvars

\* write_config_page(41, config_page): the value of write_block is dropped
MirrorSetWrite ==
    /\ hOp = "set_mirror" /\ hPc = "write41"
    /\ \E o \in PageWrite(hApi, tagMem, 41, hAcc) :
          /\ hIssued' = Append(hIssued,
                               Issued("write", 41, hAcc, [r |-> o.r, sent |-> o.sent]))
          /\ tagMem' = IF o.stored THEN Store(tagMem, 41, hAcc) ELSE tagMem
          /\ HandleDone(IF o.r.kind = "raise" THEN o.r ELSE PyNone)
    /\ UNCHANGED <<hApi, hOp, hArgs, hIdx, hAcc, hReported, hCc, hDepth, hMemory,
                   hAccesses>>
    /\ UNCHANGED fvars
    /\ UNCHANGED evars
    /\ UNCHANGED uvars

\* get_mirror_configuration() after set_mirror_configuration
MirrorGet ==
    /\ hOp = "set_mirror" /\ hPc = "done"
    /\ hOp' = "get_mirror"
    /\ \E o \in PageRead(hApi, tagMem, 41) :
          /\ hIssued' = Append(hIssued, Issued("read", 41, <<>>, o))
          /\ HandleDone(GetMirror(o.r))
    /\ UNCHANGED <<hApi, hArgs, hIdx, hAcc, hReported, hCc, hDepth, hMemory,
                   tagMem, hAccesses>>
    /\ UNCHANGED fvars
    /\ UNCHANGED evars
    /\ UNCHANGED uvars

HandleNext ==
    CcAccess \/ CcNest \/ CcUnwind \/ DumpBegin \/ DumpStep
    \/ WriteBegin \/ WriteStep
    \/ CallBegin
    \/ InitBegin
    \/ CallWrite
    \/ CallExchange
    \/ Wakeup
    \/ CallUnwind
    \/ SectionFill
    \/ SectionAccess
    \/ MirrorSetRead
    \/ MirrorSetWrite
    \/ MirrorGet

\* the frame codec on its own
FrameSpec == FrameInit /\ [][FrameNext]_vars

\* the driver: construction, then any sequence of commands
Spec == EngineInit /\ [][EngineNext]_vars

\* the functions without state, each called once on a drawn argument
UnitSpec == UnitInit /\ [][UnitNext]_vars

\* the driver: construction, then any sequence of page reads and writes
TagSpec == EngineInit /\ [][TagNext]_vars

\* a tag handle: accesses to the capability container, one dump or one
\* NDEF write
HandleSpec == HandleInit /\ [][HandleNext]_vars

(***************************************************************************)
(* Frame codec properties (checked under FrameSpec).                       *)
(***************************************************************************)
PayloadInRange == Len(fPayload) >= 1 /\ Len(fPayload) <= 255

\* C1: frame round trip. For every payload p of 1 to 255 bytes,
\* parse_frame(build_frame(p)) returns exactly p.
C1_RoundTrip ==
    (fStep = "parsed" /\ PayloadInRange) => fParsed = Ok(fPayload)

C1_Witness ==
    /\ fStep = "parsed"
    /\ Len(fPayload) = 255
    /\ fParsed.kind = "ok"
    /\ fParsed.data = fPayload

\* C2: frame layout. For every payload of n bytes, 1 <= n <= 255, build_frame
\* yields n+7 bytes 00, 00 FF, LEN, LCS, DATA, DCS, 00 with LEN = n,
\* (LEN + LCS) mod 256 = 0 and (sum(DATA) + DCS) mod 256 = 0.
C2_FrameLayout ==
    (fStep # "init" /\ PayloadInRange) =>
        LET n == Len(fPayload)
        IN  /\ Len(fFrame) = n + 7
            /\ fFrame[1] = 0
            /\ fFrame[2] = 0 /\ fFrame[3] = 255
            /\ fFrame[4] = n
            /\ fFrame[5] \in 0..255
            /\ (fFrame[4] + fFrame[5]) % 256 = 0
            /\ \A i \in 1..n : fFrame[5 + i] = fPayload[i]
            /\ fFrame[n + 6] \in 0..255
            /\ (Sum(fPayload) + fFrame[n + 6]) % 256 = 0
            /\ fFrame[n + 7] = 0

C2_Witness ==
    /\ fStep = "built"
    /\ Len(fPayload) = 255
    /\ fFrame[4] = 255 /\ fFrame[5] = 1
    /\ Sum(fPayload) % 256 # 0

\* C3: checksum rejection. parse_frame returns a payload only when the length
\* complement and the data checksum both hold on the bytes it was given; a
\* built frame in which one byte of LEN, LCS, DATA or DCS was changed to a
\* different value fails with ChecksumError and yields no payload bytes.
C3_ChecksumRejection ==
    /\ (fStep = "corrupted" /\ PayloadInRange
            /\ fMut >= 3 /\ fMut <= Len(fPayload) + 5)
        => (IsChecksumError(fParsed) /\ fParsed.data = <<>>)
    /\ (fStep \in {"parsed", "corrupted"} /\ fParsed.kind = "ok")
        => LET o == ZeroRun(fRaw) + 1      \* 0-based index of LEN
               len == fRaw[o + 1]
               lcs == fRaw[o + 2]
           IN  /\ (len + lcs) % 256 = 0
               /\ Sum(PySlice(fRaw, o + 2, o + 2 + len + 1)) % 256 = 0

C3_Witness ==
    /\ fStep = "corrupted"
    /\ PayloadInRange
    /\ fMut = 5                            \* the first payload byte
    /\ fParsed.kind = "raise"
    /\ fParsed.msg = DataChkMsg

(***************************************************************************)
(* Command engine properties (checked under Spec).                         *)
(***************************************************************************)
IsProtocolOp(e) == e.t # "wakeup"

InCall == pc \in {"Idle", "AwaitingAck", "AwaitingReady", "AwaitingResponse"}

\* C4: every call performs its transport operations in the fixed order: one
\* write of the frame of [0xD4, command] + params, the read of the 6-byte
\* ACK, the wait for device-ready, the read of the response frame of
\* response_length + 2 payload bytes; the response is read only after a
\* valid ACK and a ready device; the frame is written once; the call ends in
\* Done (with data) or Failed.
C4_OrderInv ==
    pc # "NoCall" =>
        LET po == SelectSeq(ops, IsProtocolOp)
            n == Len(po)
        IN  /\ n <= 4
            /\ (pc = "Idle") <=> (n = 0)
            /\ n >= 1 => /\ po[1].t = "write"
                         /\ po[1].bytes = BuildFrame(<<212, command>> \o params)
            /\ n >= 2 => /\ po[2].t = "read" /\ po[2].n = 6
                         /\ po[1].res = "ok"
            /\ n >= 3 => /\ po[3].t = "wait_ready"
                         /\ po[2].res = "ok" /\ po[2].bytes = ACK
            /\ n >= 4 => /\ po[4].t = "read"
                         /\ po[4].n = response_length + 2 + 7
                         /\ po[3].res = "true"
            /\ pc = "Done" => (n = 4 /\ callResult.kind = "ok")
            /\ pc = "Failed" => callResult.kind \in {"None", "raise"}

\* position of the call in Idle -> AwaitingAck -> AwaitingReady ->
\* AwaitingResponse -> Done | Failed
Rank(p) ==
    CASE p = "Idle" -> 0
      [] p = "AwaitingAck" -> 1
      [] p = "AwaitingReady" -> 2
      [] p = "AwaitingResponse" -> 3
      [] OTHER -> 4

\* a step of a running call moves it forward, and it leaves the running
\* positions only for Done or Failed
C4_Advance ==
    InCall => /\ Rank(pc') > Rank(pc)
              /\ pc' \in {"AwaitingAck", "AwaitingReady", "AwaitingResponse",
                          "Done", "Failed"}

C5_DistinctErrors ==
    /\ (Returned /\ cause \in {"no_ack", "not_ready"}) =>
          /\ callResult.kind # "ok"
          /\ \A i \in 3..Len(ops) : ops[i].t # "read"
    /\ (Returned /\ {cause, lastCall.cause} = {"no_ack", "not_ready"}) =>
          callResult # lastCall.result

\* C6: the constructor issues GET_FIRMWARE_VERSION once when the first
\* attempt succeeds, twice when the first attempt fails with a busy/timeout
\* condition, never more than twice; when the second attempt fails too, the
\* error is surfaced and construction fails.
C6_FirmwareHandshake ==
    /\ fwAttempts <= 2
    /\ phase # "constructing" =>
          /\ fwFirst.kind # "raise" => fwAttempts = 1
          /\ Caught(fwFirst) => fwAttempts = 2
          /\ (op = "firmware" /\ opState = "returned" /\ fwAttempts = 2
                /\ GetFirmwareVersion(callResult).kind = "raise") =>
                (phase = "failed" /\ opResult = GetFirmwareVersion(callResult))

\* C7: a call returns response parameters only from a response frame whose
\* first two payload bytes are [0xD5, command + 1]; another header makes the
\* call fail.
C7_HeaderChecked ==
    pc = "Done" =>
        LET payload == ParseFrame(ops[Len(ops)].bytes).data
        IN  PySlice(payload, 0, 2) = <<213, command + 1>>

\* C8: when the write of the command frame fails with an I/O error, the call
\* surfaces that error at once: no further transport operation, and no
\* 'no response' result in its place.
C8_WriteErrorSurfaced ==
    (Returned /\ cause = "write_error") =>
        /\ callResult.kind = "raise" /\ callResult.exc = "OSError"
        /\ Len(ops) = 1

\* C9: list_passive_target on an empty field (the command is ACKed and no
\* response gets ready in time, or the transport reports busy / no data)
\* returns None and raises nothing.
C9_EmptyFieldIsNone ==
    (op = "lpt" /\ opState = "returned"
        /\ cause \in {"not_ready", "busy_ack", "busy_response"})
    => opResult = PyNone

C9_Witness ==
    /\ op = "lpt" /\ opState = "returned"
    /\ cause = "not_ready"
    /\ Len(ops) = 3 /\ ops[2].bytes = ACK /\ ops[3].res = "false"
    /\ opResult = PyNone

\* C10: list_passive_target returns None only when no tag is present: a
\* failed exchange (write error, missing or damaged ACK) is reported as a
\* failure, never as None.
C10_NoneOnlyWhenNoTag ==
    (op = "lpt" /\ opState = "returned" /\ cause \in {"write_error", "no_ack"})
    => opResult # PyNone

\* C11: list_passive_target asks for one target slot, and fails with the
\* 'more than one card' error exactly when the response reports more than
\* one target: a target count of 0 or 1 does not produce that error.
C11_MultipleTargets ==
    /\ (op = "lpt" /\ opState = "running") => params[1] = 1
    /\ (op = "lpt" /\ opState = "returned" /\ callResult.kind = "ok"
            /\ Len(callResult.data) >= 1) =>
          (opResult = Raise("RuntimeError", MoreCardsMsg)
              <=> callResult.data[1] > 1)

NoStartMarker(raw) ==
    LET z == ZeroRun(raw)
    IN  \/ z >= Len(raw)
        \/ raw[z + 1] # 255
        \/ z = 0

\* C13: _parse_frame fails with the protocol error (RuntimeError) on every
\* raw input without the start marker, the empty input, an all-zero input
\* and an input starting directly with 0xFF included: it never accepts such
\* an input and never fails on it with another kind of error.
C13_StartMarkerRequired ==
    (uIn.fn = "_parse_frame" /\ uDone /\ NoStartMarker(uIn.arg)) =>
        (uOut.kind = "raise" /\ uOut.exc = "RuntimeError")

\* C14: _build_frame fails with a length error for a payload of length 0
\* and for every payload longer than 255 bytes: it produces no frame, in
\* particular none whose LEN byte is the length modulo 256.
C14_LengthChecked ==
    (fStep = "built" /\ (Len(fPayload) = 0 \/ Len(fPayload) > 255)) =>
        fFrame = <<>>

\* C15: ACK detection is a byte-exact comparison with 00 00 FF 00 FF 00:
\* true for exactly that sequence, false for every sequence that differs
\* from it in one bit and for every sequence of another length.
C15_AckByteExact ==
    (uIn.fn = "_wait_for_ack" /\ uDone) =>
        /\ uOut \in {Ok(<<1>>), Ok(<<0>>)}
        /\ uOut = Ok(<<1>>) <=> uIn.arg = <<0, 0, 255, 0, 255, 0>>

C15_Witness ==
    /\ uIn.fn = "_wait_for_ack" /\ uDone
    /\ uIn.arg = <<0, 0, 255, 0, 255, 1>>
    /\ uOut = Ok(<<0>>)

\* C20: the sub-type derivation is a total function of one capability
\* container byte b: 0x12 gives NTAG213 with 45 pages, user range (4, 39)
\* and configuration range (41, 44); 0x3E gives NTAG215 with 135 pages;
\* 0x6D gives NTAG216 with 231 pages; every other value gives 'Unknown'
\* with (None, None) ranges.
C20_SubTypeDerivation ==
    (uIn.fn = "_determine_tag_properties" /\ uDone) =>
        LET b == uIn.arg[1]
        IN  /\ b = 18 =>
                  /\ uOut.tag_type = "NTAG213" /\ uOut.pages = Some(45)
                  /\ uOut.user_memory_range = <<Some(4), Some(39)>>
                  /\ uOut.configuration_pages_range = <<Some(41), Some(44)>>
            /\ b = 62 => (uOut.tag_type = "NTAG215" /\ uOut.pages = Some(135))
            /\ b = 109 => (uOut.tag_type = "NTAG216" /\ uOut.pages = Some(231))
            /\ b \notin {18, 62, 109} =>
                  /\ uOut.tag_type = "Unknown"
                  /\ uOut.user_memory_range = <<None, None>>
                  /\ uOut.configuration_pages_range = <<None, None>>

C20_Witness ==
    /\ uIn = [fn |-> "_determine_tag_properties", arg |-> <<62>>] /\ uDone
    /\ uOut.tag_type = "NTAG215" /\ uOut.pages = Some(135)

\* C16: write_block(n, data) fails with a length error for every data whose
\* length is not 4 (lengths 1, 2 and 3 included) before any transport
\* operation: every WRITE that reaches the transport carries exactly 4 data
\* bytes.
C16_WriteLength ==
    /\ (op = "write" /\ opState = "returned" /\ Len(data) # 4) =>
          /\ opResult.kind = "raise"
          /\ opResult.exc \in {"ValueError", "AssertionError"}
          /\ ops = <<>>
    /\ (op = "write" /\ Len(ops) > 0) => Len(params) = 3 + 4

\* C17: read_block and write_block fail with a page range error for every
\* page number outside [0, total_pages) and perform no transport operation:
\* a page number of 256 or more is never reduced modulo 256 and sent.
C17_PageRange ==
    (op \in {"read", "write"} /\ ~(0 <= block_number /\ block_number < TagPages))
    =>  /\ ops = <<>>
        /\ opState = "returned" => opResult.kind = "raise"

\* the status codes an error value carries: those whose table message it has
CarriedCodes(r) == {err \in DOMAIN PN532_ERRORS : PN532_ERRORS[err] = r.msg}

\* C18: for every non-zero status byte s in the response of a read or write
\* exchange, the operation fails with the device error carrying s, also for
\* a code absent from the error table: it never returns page data or a
\* success result, and never swallows the status.
C18_StatusSurfaced ==
    (op \in {"read", "write"} /\ opState = "returned"
        /\ callResult.kind = "ok" /\ Len(callResult.data) >= 1
        /\ callResult.data[1] # 0) =>
        /\ opResult.kind = "raise" /\ opResult.exc = "PN532Error"
        /\ CarriedCodes(opResult) = {callResult.data[1]}

\* C19: a successful read_block returns exactly 4 bytes, the first 4 of the
\* 16 data bytes that follow the status byte in the device's response:
\* bytes 5..16 of the data never appear in the result.
C19_ReadFirstFour ==
    (op = "read" /\ opState = "returned" /\ opResult.kind = "ok") =>
        /\ Len(opResult.data) = 4
        /\ Len(callResult.data) = 1 + 16
        /\ \A i \in 1..4 : opResult.data[i] = callResult.data[1 + i]

(***************************************************************************)
(* Tag handle properties (checked under HandleSpec).                       *)
(***************************************************************************)
\* the page commands of the history that read page 3
Page3Reads ==
    {i \in DOMAIN hIssued : hIssued[i].cmd = "read" /\ hIssued[i].page = 3}

\* C21: on a fresh tag handle the first access to the capability container
\* terminates and reads page 3 exactly once; after a read that succeeded,
\* later accesses to the capability container issue no further read of
\* page 3.
C21_CcReadOnce ==
    (hApi = "BaseNTAG" /\ hOp = "cc" /\ hPc = "done") =>
        Cardinality(Page3Reads) = 1

\* the read of the history at position i gave page data
ReadOk(i) == hIssued[i].r.kind = "ok"

\* C22: dump(start, end) reads the pages in ascending order and returns the
\* longest prefix read without failure: when page k is the first to fail it
\* returns the pages start..k-1, reports the failure of k and reads no page
\* after k; with no failure it returns every page of the range.
C22_DumpPrefix ==
    (hOp = "dump" /\ hPc = "done") =>
        LET n == Len(hIssued)
            good == Cardinality({j \in 1..n : ReadOk(j)})
        IN  /\ \A i \in 1..n : hIssued[i].page = hArgs.start_block + i - 1
            /\ \A i \in 1..(n - 1) : ReadOk(i)
            /\ hResult.kind = "ok"
            /\ hResult.data = [i \in 1..good |-> FormatBlock(hIssued[i].r.data)]
            /\ IF n > 0 /\ ~ReadOk(n)
               THEN hReported = <<hIssued[n].page>>
               ELSE /\ hReported = <<>>
                    /\ n = IF hArgs.end_block < hArgs.start_block THEN 0
                           ELSE hArgs.end_block - hArgs.start_block + 1

\* the write of the history at position i succeeded: write_block gave True
WriteOk(i) == hIssued[i].r = Ok(<<1>>)

\* C23: during write_message, when a page write fails (a non-zero status or
\* a failed exchange), no later page write is issued and the failure is
\* reported, never success; the pages written before the failure keep
\* their new content.
C23_WriteAborts ==
    hOp = "write" =>
        /\ \A i \in 1..(Len(hIssued) - 1) : WriteOk(i)
        /\ \A i \in 1..Len(hIssued) :
              WriteOk(i) => Mem(tagMem, hIssued[i].page) = hIssued[i].data
        /\ (hPc = "done" /\ \E i \in 1..Len(hIssued) : ~WriteOk(i))
              => hResult # Ok(<<1>>)

\* ceil(n / 4)
CeilDiv4(n) == (n + 3) \div 4

\* every page command of the finished write was sent and succeeded
AllWritesOk ==
    /\ hOp = "write" /\ hPc = "done" /\ hResult = Ok(<<1>>)
    /\ \A i \in 1..Len(hIssued) : WriteOk(i) /\ hIssued[i].sent

\* write i of the history carries bytes 4(i-1)..4(i-1)+3 of the message,
\* padded with 0x00, and goes to page s + (i-1)
ChunkWrites(msg, s) ==
    /\ Len(hIssued) = CeilDiv4(Len(msg))
    /\ \A i \in 1..Len(hIssued) :
          /\ hIssued[i].page = s + (i - 1)
          /\ Len(hIssued[i].data) = 4
          /\ \A k \in 1..4 :
                hIssued[i].data[k] =
                    IF 4 * (i - 1) + k <= Len(msg) THEN msg[4 * (i - 1) + k]
                    ELSE 0

TooLong ==
    Len(hArgs.ndef_message) > (TagPages - hArgs.start_block) * 4

\* C25: write_message fails with OutOfSpaceError whenever the message is
\* longer than (total_pages - start_page) * 4 bytes; it then issues no page
\* write and leaves the locally cached memory unchanged.
C25_OutOfSpace ==
    (hOp = "write" /\ TooLong) =>
        /\ hIssued = <<>>
        /\ hPc = "done" => hResult # Ok(<<1>>)
        /\ hApi = "ntag" => hMemory = InitialMemory

(***************************************************************************)
(* NDEF encoder properties (checked under UnitSpec).                       *)
(***************************************************************************)
\* the TLV block of the record bytes R: 0x03, LENGTH, R, 0xFE
TlvBlock(R) ==
    <<3>>
    \o (IF Len(R) < 255 THEN <<Len(R)>>
        ELSE <<255, Len(R) \div 256, Len(R) % 256>>)
    \o R \o <<254>>

\* C26: wrap_message of records whose concatenation R has n bytes produces
\* exactly 0x03, LENGTH, R, 0xFE, with nothing before the 0x03; LENGTH is
\* the single byte n when n < 255, and 0xFF followed by n as 2 bytes
\* big-endian when n >= 255 (n = 300 gives 03 FF 01 2C).
C26_TlvWrap ==
    /\ (uDone /\ uIn.fn \in {"_construct_complete_record",
                             "NTAG213.create_ndef_record"}) =>
          uOut.data.tlv = TlvBlock(uOut.data.header \o uOut.data.payload)
    /\ (uDone /\ uIn.fn = "combine_ndef_records") =>
          uOut.data = TlvBlock(CombineNdefRecords(uIn.arg))

\* bit k of the byte f is set
Bit(f, k) == (f \div (2 ^ k)) % 2 = 1

\* rec is the record of the layout: flags, type length, payload length,
\* optional ID length, type, optional ID, payload; the flags carry tnf in
\* the low 3 bits, MB and ME by position and IL by the id
RecordLayout(rec, tnf, record_type, id, pos, payloadBytes) ==
    /\ Len(rec) >= 1
    /\ rec[1] % 8 = tnf
    /\ Bit(rec[1], 7) <=> pos \in {"only", "first"}
    /\ Bit(rec[1], 6) <=> pos \in {"only", "last"}
    /\ Bit(rec[1], 3) <=> id # <<>>
    /\ rec = <<rec[1], Len(Encode(record_type))>>
             \o ToBytes(Len(payloadBytes), IF Bit(rec[1], 4) THEN 1 ELSE 4)
             \o (IF Bit(rec[1], 3) THEN <<Len(Encode(id))>> ELSE <<>>)
             \o Encode(record_type) \o Encode(id) \o payloadBytes

\* C27: the output of encode_record is flags, type length, payload length,
\* optional ID length, type, optional ID, payload; the low 3 bits of the
\* flags are tnf, MB is set iff the position is only or first, ME iff it is
\* only or last, neither for middle, IL iff the id is not empty, and the ID
\* length and ID bytes are present iff IL is set.
C27_RecordLayout ==
    /\ (uDone /\ uIn.fn = "create_ndef_record") =>
          RecordLayout(uOut.data, uIn.arg.tnf, uIn.arg.record_type,
                       uIn.arg.id, uIn.arg.record_position,
                       Encode(uIn.arg.payload))
    /\ (uDone /\ uIn.fn = "_construct_complete_record") =>
          RecordLayout(uOut.data.header \o uOut.data.payload, uIn.arg.tnf,
                       uIn.arg.record_type, uIn.arg.id, "only",
                       uOut.data.payload)

\* bytes of the payload-length field of a header built for the given type
\* and id
LengthFieldWidth(header, record_type, id) ==
    Len(header) - 2 - (IF id # <<>> THEN 1 ELSE 0)
    - Len(Encode(record_type)) - Len(Encode(id))

\* C28: the SR flag is set iff the prepared payload (after the URI
\* abbreviation) is shorter than 256 bytes, and the payload-length field is
\* 1 byte iff SR is set and 4 bytes otherwise; this includes a URI of raw
\* length 255 and a URI whose length crosses 256 only before its prefix is
\* removed.
C28_ShortRecord ==
    (uDone /\ uIn.fn \in {"_construct_complete_record",
                          "NTAG213.create_ndef_record"}) =>
        /\ Bit(uOut.data.header[1], 4) <=> Len(uOut.data.payload) < 256
        /\ LengthFieldWidth(uOut.data.header, uIn.arg.record_type, uIn.arg.id)
              = IF Bit(uOut.data.header[1], 4) THEN 1 ELSE 4

\* the rows of the table whose prefix the payload starts with
Matching(payload) ==
    {k \in DOMAIN URI_PREFIX_MAP : StartsWith(payload, URI_PREFIX_MAP[k].prefix)}

\* C29: for a record of type 'U' the prepared payload is one code byte and
\* the rest of the URI, the code being that of the longest prefix of the
\* table the URI starts with ('https://www.' wins over 'https://') and only
\* that prefix being removed; with no match the code is 0x00 and the URI is
\* whole; for every other type the payload is encoded unchanged, with no
\* code byte.
C29_LongestPrefix ==
    (uDone /\ uIn.fn = "_prepare_payload" /\ uIn.arg.cls = "ndef") =>
        LET payload == uIn.arg.payload
            M == Matching(payload)
        IN  IF uIn.arg.record_type # <<"U">>
            THEN uOut.data = Encode(payload)
            ELSE IF M = {} THEN uOut.data = <<0>> \o Encode(payload)
            ELSE \E k \in M :
                    /\ \A j \in M : Len(URI_PREFIX_MAP[j].prefix)
                                        <= Len(URI_PREFIX_MAP[k].prefix)
                    /\ uOut.data = <<URI_PREFIX_MAP[k].code>>
                          \o Encode(SubSeq(payload,
                                           Len(URI_PREFIX_MAP[k].prefix) + 1,
                                           Len(payload)))

C29_Witness ==
    /\ uDone /\ uIn.fn = "_prepare_payload" /\ uIn.arg.cls = "ndef"
    /\ uIn.arg.record_type = <<"U">>
    /\ uIn.arg.payload = Https \o Www \o ExampleCom
    /\ uOut.data = <<2>> \o Encode(ExampleCom)

\* the bytes the code byte stands for
ExpandCode(code) ==
    IF \E k \in DOMAIN URI_PREFIX_MAP : URI_PREFIX_MAP[k].code = code
    THEN Encode(URI_PREFIX_MAP[CHOOSE k \in DOMAIN URI_PREFIX_MAP :
                                   URI_PREFIX_MAP[k].code = code].prefix)
    ELSE <<>>

\* C30: in every variant of the URI record encoder the code byte and the
\* literal suffix are consistent: the prefix the code stands for followed
\* by the suffix is the original URI ("https://example.com" gives 0x04 and
\* "example.com").
C30_CodeSuffixConsistent ==
    (uDone /\ uIn.fn = "_prepare_payload" /\ uIn.arg.record_type = <<"U">>) =>
        /\ Len(uOut.data) >= 1
        /\ ExpandCode(uOut.data[1]) \o Tail(uOut.data) = Encode(uIn.arg.payload)

\* the URI names the scheme https:// and not the longer prefix https://www.
PlainHttps(payload) ==
    StartsWith(payload, Https) /\ ~StartsWith(payload, Https \o Www)

\* C31: the bytes of an encoded NDEF record depend only on (tnf,
\* record_type, payload, id, position): two encoders that differ only in
\* their debug flag produce the same bytes for the same inputs, and the
\* code byte for an "https://" URI is 0x04 in both.
C31_DebugIndependent ==
    /\ (uDone /\ uIn.fn = "_prepare_payload") =>
          /\ uOut.data =
                IF uIn.arg.cls = "ndef"
                THEN PreparePayloadNdef(uIn.arg.record_type, uIn.arg.payload)
                ELSE PreparePayloadFixed(uIn.arg.cls, ~uIn.arg.debug,
                                         uIn.arg.record_type, uIn.arg.payload)
          /\ (uIn.arg.record_type = <<"U">> /\ PlainHttps(uIn.arg.payload))
                => uOut.data[1] = 4
    /\ (uDone /\ uIn.fn = "NTAG213.create_ndef_record") =>
          uOut.data.tlv =
              CreateNdefRecord213(~uIn.arg.debug, uIn.arg.tnf,
                                  uIn.arg.record_type, uIn.arg.payload,
                                  uIn.arg.id).tlv

\* the bytes of the user memory handed to read_ndef_message
StoredBytes == {JoinPages(uIn.arg[1])[i] : i \in 1..Len(JoinPages(uIn.arg[1]))}

\* C32: reading a message back from the tag fails with MalformedNdefError
\* whenever the stored user-memory bytes do not contain the 0x03 TLV tag or
\* do not contain the 0xFE terminator; such content is never returned to
\* the caller as a decoded message.
C32_MalformedRejected ==
    (uDone /\ uIn.fn = "read_ndef_message" /\ uIn.arg # None
        /\ (3 \notin StoredBytes \/ 254 \notin StoredBytes)) =>
        uOut.kind = "raise"

\* every _write_frame of the call so far raised the I/O error
FrameWritesFail ==
    /\ \E i \in 1..Len(hIssued) : hIssued[i].cmd = "_write_data"
    /\ \A i \in 1..Len(hIssued) :
          hIssued[i].cmd = "_write_data" => hIssued[i].r.kind = "raise"

\* the call has failed: _call_function gave None, the constructor raised
\* the RuntimeError of _get_firmware_version
Failed ==
    IF hOp = "call" THEN hResult = PyNone
    ELSE hResult = Raise("RuntimeError", "Failed to detect the PN532")

\* C33: every call terminates with a bounded number of transport
\* operations even when the transport fails persistently: with a write that
\* raises an I/O error on every attempt the call (and the construction of
\* the driver) reaches Failed, and the wake-up path taken on a write error
\* never starts another command exchange that can fail and wake up again
\* (no _call_function is ever live inside another).
C33_BoundedCall ==
    hOp \in {"call", "init"} =>
        /\ hDepth <= 1
        /\ (hPc = "done" /\ FrameWritesFail) =>
              /\ Failed
              /\ Len(hIssued) <= 5

\* tag_type and pages came out as the sub-type t with n pages
Classified(t, n) ==
    uOut.data.tag_type = Some(t) /\ uOut.data.pages = Some(n)

\* C34: BaseNTAG.tag_type classifies a tag whose Capability Container size
\* byte is 0x12 as NTAG213, 0x3E as NTAG215 and 0x6D as NTAG216, and
\* BaseNTAG.pages is the page count of that sub-type (45, 135, 231).
C34_TagTypeBySizeByte ==
    (uDone /\ uIn.fn = "tag_type" /\ uIn.arg.kind = "ok") =>
        /\ uIn.arg.data[3] = 18 => Classified("NTAG213", 45)
        /\ uIn.arg.data[3] = 62 => Classified("NTAG215", 135)
        /\ uIn.arg.data[3] = 109 => Classified("NTAG216", 231)

\* the pages the message of the call takes from its start page
MessagePages ==
    hArgs.start_block..(hArgs.start_block + CeilDiv4(Len(hArgs.ndef_message)) - 1)

\* C35: write_message with a start page of 4 or more and a message of L
\* bytes sends write commands only for pages in
\* [start_page, start_page + ceil(L/4) - 1]: no write goes to pages 0 to 3
\* or to any other page outside the message, neither directly nor through
\* the page address that is reduced mod 256 on the wire.
C35_WritesInsideMessage ==
    (hOp = "write" /\ hArgs.start_block >= 4) =>
        \A i \in 1..Len(hIssued) :
            (hIssued[i].cmd = "write" /\ hIssued[i].sent) =>
                /\ hIssued[i].page \in MessagePages
                /\ And255(hIssued[i].page) \in MessagePages
                /\ And255(hIssued[i].page) \notin 0..3

\* the LEN byte of a raw input: the byte after the 0xFF start marker
LenByte(raw) == raw[ZeroRun(raw) + 2]

\* bytes of a raw input after the LCS byte
AfterLcs(raw) == Len(raw) - (ZeroRun(raw) + 3)

\* C36: whenever _parse_frame returns successfully on an input whose LEN
\* byte is n, the payload has exactly n bytes and the input held the n data
\* bytes and the DCS byte after the LCS; an input with fewer than n + 1
\* bytes after the LCS is rejected and never yields a shorter payload.
C36_TruncatedRejected ==
    (uIn.fn = "_parse_frame" /\ uDone /\ uOut.kind = "ok") =>
        /\ Len(uOut.data) = LenByte(uIn.arg)
        /\ AfterLcs(uIn.arg) >= LenByte(uIn.arg) + 1

\* the Capability Container was read and its byte names no sub-type
UnknownByte ==
    /\ uIn.arg.cc.kind = "ok" /\ Len(uIn.arg.cc.data) > 0
    /\ uIn.arg.cc.data[2] \notin {18, 62, 109}

\* C37: constructing a tag handle over a tag whose Capability Container
\* byte is none of 0x12, 0x3E, 0x6D completes without error and yields a
\* handle with sub-type Unknown, user and configuration ranges (None, None)
\* and user_memory and configurations None; no memory fill is attempted.
C37_UnknownHandle ==
    (uDone /\ uIn.fn = "NTAG.__init__" /\ UnknownByte) =>
        /\ uOut.kind = "ok"
        /\ uOut.data.tag_type = "Unknown"
        /\ uOut.data.user_memory_range = <<None, None>>
        /\ uOut.data.configuration_pages_range = <<None, None>>
        /\ uOut.data.user_memory = None
        /\ uOut.data.configurations = None
        /\ uOut.data.fill_reads = 0

\* the Capability Container byte and the page count of a known sub-type
ByteOf(t) == IF t = "NTAG213" THEN 18 ELSE IF t = "NTAG215" THEN 62 ELSE 109
TotalPages(t) == IF t = "NTAG213" THEN 45 ELSE IF t = "NTAG215" THEN 135 ELSE 231

\* the ranges u and c are disjoint, start at page 4 or later and lie inside
\* the n pages of the tag
WellPlaced(u, c, n) ==
    /\ u[1] # None /\ u[2] # None /\ c[1] # None /\ c[2] # None
    /\ (u[2][1] < c[1][1] \/ c[2][1] < u[1][1])
    /\ u[1][1] >= 4 /\ c[1][1] >= 4
    /\ u[1][1] <= u[2][1] /\ c[1][1] <= c[2][1]
    /\ u[2][1] < n /\ c[2][1] < n

\* C38: for each known sub-type (NTAG213 with 45 pages, NTAG215 with 135,
\* NTAG216 with 231) the user-memory range and the configuration-page
\* range are disjoint, start at or after page 4, lie inside
\* [0, total_pages), and are the same in the lookup table of
\* _determine_tag_properties and in the per-type range functions.
C38_RangesAgree ==
    (uDone /\ uIn.fn = "_get_ranges" /\ uIn.arg # "Unknown") =>
        LET table == DetermineTagProperties(ByteOf(uIn.arg))
        IN  /\ WellPlaced(uOut.data.user_memory_range,
                          uOut.data.configuration_pages_range, TotalPages(uIn.arg))
            /\ WellPlaced(table.user_memory_range,
                          table.configuration_pages_range, TotalPages(uIn.arg))
            /\ table.tag_type = uIn.arg /\ table.pages = Some(TotalPages(uIn.arg))
            /\ table.user_memory_range = uOut.data.user_memory_range
            /\ table.configuration_pages_range = uOut.data.configuration_pages_range

\* C39: after any sequence of fill_memory calls and section accesses on
\* one handle, the value returned for a cached section (the capability
\* container, pages 3..3) equals the current memory[3..3]: a section
\* cached before a later fill_memory is never returned stale.
C39_SectionCurrent ==
    (hOp = "capability_container" /\ hPc = "done" /\ hMemory # <<>>) =>
        hResult = Ok(<<hMemory[3]>>)

\* the page the first command of the call, the read of page 41, returned
PageJustRead == hIssued[1].r.data

\* the writes of the call
MirrorWrites == {i \in 1..Len(hIssued) : hIssued[i].cmd = "write"}

\* d is the page old with MIRROR_CONF c, MIRROR_BYTE b and MIRROR_PAGE p
\* and nothing else changed
FieldsSet(d, old, c, b, p) ==
    /\ Len(d) = 4
    /\ (d[1] \div 64) % 4 = c
    /\ (d[1] \div 16) % 4 = b
    /\ d[1] % 16 = old[1] % 16
    /\ d[2] = old[2]
    /\ d[3] = p
    /\ d[4] = old[4]

\* C40: set_mirror_configuration(c, b, p) with c and b in 0..3 and p in
\* 0..255, once its read of configuration page 41 has returned the page,
\* issues exactly one write, of page 41, in which only the MIRROR_CONF and
\* MIRROR_BYTE fields of byte 0 and the MIRROR_PAGE byte are changed; a
\* following get_mirror_configuration that reads the stored page returns
\* (c, b, p).
C40_MirrorFieldsOnly ==
    /\ (hOp = "set_mirror" /\ hPc = "done" /\ hIssued[1].r.kind = "ok"
            /\ Len(PageJustRead) = 4) =>
          /\ Cardinality(MirrorWrites) = 1
          /\ \A i \in MirrorWrites :
                /\ hIssued[i].page = 41 /\ hIssued[i].sent
                /\ FieldsSet(hIssued[i].data, PageJustRead, hArgs.mirror_conf,
                             hArgs.mirror_byte, hArgs.mirror_page)
    /\ (hOp = "get_mirror" /\ hPc = "done" /\ hIssued[1].r.kind = "ok"
            /\ Len(PageJustRead) = 4 /\ hIssued[Len(hIssued)].r.kind = "ok"
            /\ 41 \in DOMAIN tagMem) =>
          hResult = Ok(<<hArgs.mirror_conf, hArgs.mirror_byte, hArgs.mirror_page>>)

====
